---------------------------- MODULE Spec2Model ----------------------------
(***************************************************************************)
(* HabitTracker: the habit store, the log store, the streak and dashboard  *)
(* aggregation of services/, the in-memory cache of cache_service.py and   *)
(* the public and admin routes that tie them together.                     *)
(*                                                                         *)
(* Dates are calendar days counted as integers (a day ordinal).  The code  *)
(* keeps them as zero-padded 'YYYY-MM-DD' strings, whose string order is   *)
(* the calendar order, and converts with strptime/strftime; timedelta(1)   *)
(* is +1 on the ordinal.  Booleans are stored by SQLite as 0/1.            *)
(*                                                                         *)
(* A habit row keeps is_active, is_public, order_index and created_at; its *)
(* name and the value-tracking columns (tracks_value, value_unit,          *)
(* value_aggregation_type) are left out, and with them the value_stats of  *)
(* the dashboard, whose get_value_stats is not in services/log_service.py. *)
(* Percentages are integers counting tenths of a percent.                  *)
(***************************************************************************)
EXTENDS Integers, Sequences, FiniteSets, Bags, TLC

VARIABLES
    habits,     \* table habits: id -> row
    logs,       \* table logs: a bag of rows (habit_id, date, status, value)
    last,       \* the last service call: its name, arguments and outcome
    cache,      \* CacheService._cache: key -> (value, timestamp, duration)
    clock,      \* time.time(), in seconds
    session,    \* session['authenticated'] of the client
    response,   \* the last HTTP response
    inflight,   \* requests being served concurrently, each with its position
    written     \* history: per key, the most recent CacheService.set and
                \* whether the key was invalidated or the cache cleared since

storeVars == <<habits, logs>>
webVars == <<cache, clock, session, response, inflight, written>>
vars == <<habits, logs, last, cache, clock, session, response, inflight, written>>

-----------------------------------------------------------------------------
(* Bounds of the model *)

MaxHabits == 2          \* habits ever created
MaxEntries == 2         \* entries of one save_day_logs call
SomeValue == 5          \* the numeric value of a {status, value} entry

(* datetime.now().date(): the day the requests run on *)
Today == 100

(* SQL NULL / Python None *)
NULL == -1

HabitIds == 1..MaxHabits
Values == {SomeValue}

-----------------------------------------------------------------------------
(* Python values *)

(* An entry of habit_statuses: a plain boolean, or a dict {status, value}.  *)
(* form = "bool": the entry is `status`;  form = "dict": the entry is the   *)
(* dict {'status': status, 'value': value}.                                 *)
BoolEntry(s) == [form |-> "bool", status |-> s, value |-> NULL]
DictEntry(s, v) == [form |-> "dict", status |-> s, value |-> v]
Entries == {BoolEntry(s) : s \in BOOLEAN} \cup
           {DictEntry(s, v) : s \in BOOLEAN, v \in Values}

(* Python truth value of what upsert_log receives as `status`: a bool is   *)
(* itself, a non-empty dict is true.                                        *)
truthy(status) == IF status.form = "bool" THEN status.status ELSE TRUE

(* status_int = 1 if status else 0 *)
status_int(status) == IF truthy(status) THEN 1 ELSE 0

-----------------------------------------------------------------------------
(* models/database.py and the schema it loads *)

(* PRAGMA foreign_keys = ON with logs.habit_id REFERENCES habits(id): an    *)
(* insert into logs for a habit that does not exist raises IntegrityError,  *)
(* which get_connection re-raises after rollback.                           *)
foreign_key_ok(H, habit_id) == habit_id \in DOMAIN H

(* logs.habit_id REFERENCES habits(id) ON DELETE CASCADE: the logs of a     *)
(* deleted habit go with it                                                 *)
cascade_deleted(L, habit_id) ==
    [r \in {x \in BagToSet(L) : x.habit_id # habit_id} |-> L[r]]

(* cursor.lastrowid of an INSERT into habits: the next rowid *)
next_habit_id(H) == IF DOMAIN H = {} THEN 1
                    ELSE (CHOOSE i \in DOMAIN H : \A j \in DOMAIN H : j <= i) + 1

-----------------------------------------------------------------------------
(* services/habit_service.py *)

(* ORDER BY order_index ASC, created_at ASC; rows equal on both come in    *)
(* rowid order                                                             *)
row_before(H, i, j) ==
    \/ H[i].order_index < H[j].order_index
    \/ /\ H[i].order_index = H[j].order_index
       /\ \/ H[i].created_at < H[j].created_at
          \/ H[i].created_at = H[j].created_at /\ i <= j

RECURSIVE order_by(_, _)
order_by(H, ids) ==
    IF ids = {} THEN <<>>
    ELSE LET first == CHOOSE i \in ids : \A j \in ids : row_before(H, i, j)
         IN  <<first>> \o order_by(H, ids \ {first})

get_all_habits(H, include_private) ==
    IF include_private
    THEN order_by(H, DOMAIN H)
    ELSE order_by(H, {i \in DOMAIN H : H[i].is_public = 1})

(* the public filter left out *)
get_active_habits_unfiltered(H, include_private) ==
    order_by(H, {i \in DOMAIN H : H[i].is_active = 1})

get_active_habits(H, include_private) ==
    IF include_private
    THEN order_by(H, {i \in DOMAIN H : H[i].is_active = 1})
    ELSE order_by(H, {i \in DOMAIN H : H[i].is_active = 1 /\ H[i].is_public = 1})

get_habit_by_id(H, habit_id) == IF habit_id \in DOMAIN H THEN {habit_id} ELSE {}

(* SELECT MAX(order_index); -1 when the table is empty *)
max_order(H) ==
    IF DOMAIN H = {} THEN NULL
    ELSE LET m == CHOOSE i \in DOMAIN H :
                      \A j \in DOMAIN H : H[j].order_index <= H[i].order_index
         IN  H[m].order_index

bool_int(b) == IF b THEN 1 ELSE 0

insert_habit(H, is_public) ==
    LET id == next_habit_id(H)
        row == [is_active |-> 1, is_public |-> bool_int(is_public),
                order_index |-> max_order(H) + 1, created_at |-> Today]
    IN  [i \in DOMAIN H \cup {id} |-> IF i = id THEN row ELSE H[i]]

(* UPDATE habits SET <the supplied fields> WHERE id = ? *)
set_fields(row, kwargs) ==
    [f \in DOMAIN row |-> IF f \in DOMAIN kwargs THEN bool_int(kwargs[f]) ELSE row[f]]

updated_habits(H, habit_id, kwargs) ==
    IF DOMAIN kwargs = {} \/ habit_id \notin DOMAIN H THEN H
    ELSE [H EXCEPT ![habit_id] = set_fields(H[habit_id], kwargs)]

(* the positions counted from the end of the list *)
RECURSIVE reordered_reversed(_, _, _)
reordered_reversed(H, habit_ids, k) ==
    IF k > Len(habit_ids) THEN H
    ELSE reordered_reversed(IF habit_ids[k] \in DOMAIN H
                            THEN [H EXCEPT ![habit_ids[k]].order_index = Len(habit_ids) - k]
                            ELSE H,
                            habit_ids, k + 1)

(* for index, habit_id in enumerate(habit_ids): UPDATE ... SET order_index *)
RECURSIVE reordered(_, _, _)
reordered(H, habit_ids, k) ==
    IF k > Len(habit_ids) THEN H
    ELSE reordered(IF habit_ids[k] \in DOMAIN H
                   THEN [H EXCEPT ![habit_ids[k]].order_index = k - 1]
                   ELSE H,
                   habit_ids, k + 1)

RECURSIVE reorder_count(_, _, _)
reorder_count(H, habit_ids, k) ==
    IF k > Len(habit_ids) THEN 0
    ELSE (IF habit_ids[k] \in DOMAIN H THEN 1 ELSE 0) + reorder_count(H, habit_ids, k + 1)

(* the update without its WHERE clause *)
deactivated_all(H, habit_id) ==
    [i \in DOMAIN H |-> [H[i] EXCEPT !.is_active = 0]]

deactivated(H, habit_id) ==
    IF habit_id \in DOMAIN H THEN [H EXCEPT ![habit_id].is_active = 0] ELSE H

(* hard_delete_habit: DELETE FROM habits WHERE id = ? *)
hard_deleted(H, habit_id) == [i \in DOMAIN H \ {habit_id} |-> H[i]]

-----------------------------------------------------------------------------
(* services/log_service.py: the statements on table logs *)

LogRow(h, d, s, v) == [habit_id |-> h, date |-> d, status |-> s, value |-> v]

rows_of(L, h, d) == {r \in BagToSet(L) : r.habit_id = h /\ r.date = d}

(* the number of rows of table logs with this (habit_id, date) *)
RECURSIVE copies_sum(_, _)
copies_sum(L, rows) ==
    IF rows = {} THEN 0
    ELSE LET r == CHOOSE x \in rows : TRUE
         IN  CopiesIn(r, L) + copies_sum(L, rows \ {r})

count_rows(L, h, d) == copies_sum(L, rows_of(L, h, d))

(* a plain INSERT, the conflict clause left out *)
execute_upsert_insert_only(L, h, d, s) ==
    L (+) SetToBag({LogRow(h, d, s, NULL)})

(* the update of the conflict clause reaching every row of the date *)
execute_upsert_whole_date(L, h, d, s) ==
    IF rows_of(L, h, d) = {}
    THEN L (+) SetToBag({LogRow(h, d, s, NULL)})
    ELSE BagOfAll(LAMBDA r : IF r.date = d THEN [r EXCEPT !.status = s] ELSE r, L)

(* INSERT INTO logs (habit_id, date, status) VALUES (?, ?, ?)              *)
(* ON CONFLICT(habit_id, date) DO UPDATE SET status = excluded.status      *)
execute_upsert(L, h, d, s) ==
    IF rows_of(L, h, d) = {}
    THEN L (+) SetToBag({LogRow(h, d, s, NULL)})
    ELSE BagOfAll(LAMBDA r : IF r.habit_id = h /\ r.date = d
                             THEN [r EXCEPT !.status = s] ELSE r, L)

(* DELETE FROM logs WHERE habit_id = ? AND date = ? *)
execute_delete(L, h, d) ==
    LET keep == {r \in BagToSet(L) : ~(r.habit_id = h /\ r.date = d)}
    IN  [r \in keep |-> L[r]]

(* the loop with a failed upsert skipped instead of raised *)
RECURSIVE save_loop_skipping(_, _, _, _, _)
save_loop_skipping(H, L, date, habit_statuses, k) ==
    IF k > Len(habit_statuses)
    THEN [logs |-> L, raised |-> FALSE, count |-> k - 1]
    ELSE save_loop_skipping(H,
             IF foreign_key_ok(H, habit_statuses[k].habit_id)
             THEN L (+) SetToBag({LogRow(habit_statuses[k].habit_id, date,
                                         IF habit_statuses[k].status.form = "bool"
                                            /\ ~habit_statuses[k].status.status
                                         THEN 0 ELSE 1, NULL)})
                    (-) [r \in rows_of(L, habit_statuses[k].habit_id, date) |-> L[r]]
             ELSE L,
             date, habit_statuses, k + 1)

(* save_day_logs: the loop over habit_statuses.items().  Each upsert_log    *)
(* commits on its own connection; the first one that raises ends the loop   *)
(* with the earlier ones already committed.                                 *)
RECURSIVE save_loop(_, _, _, _, _)
save_loop(H, L, date, habit_statuses, k) ==
    IF k > Len(habit_statuses)
    THEN [logs |-> L, raised |-> FALSE, count |-> k - 1]
    ELSE IF ~foreign_key_ok(H, habit_statuses[k].habit_id)
         THEN [logs |-> L, raised |-> TRUE, count |-> k - 1]
         ELSE save_loop(H,
                        execute_upsert(L, habit_statuses[k].habit_id, date,
                                       status_int(habit_statuses[k].status)),
                        date, habit_statuses, k + 1)

-----------------------------------------------------------------------------
(* services/log_service.py: the read side *)

(* the rows of a query in ORDER BY date ASC, each row as often as the table *)
(* holds it                                                                 *)
RECURSIVE order_by_date(_, _)
order_by_date(L, rows) ==
    IF rows = {} THEN <<>>
    ELSE LET r == CHOOSE x \in rows : \A y \in rows : x.date <= y.date
         IN  [k \in 1..CopiesIn(r, L) |-> r] \o order_by_date(L, rows \ {r})

reversed(q) == [k \in 1..Len(q) |-> q[Len(q) + 1 - k]]

(* WHERE habit_id = ? AND date >= ? AND date <= ? *)
rows_between(L, h, lo, hi) ==
    {r \in BagToSet(L) : r.habit_id = h /\ r.date >= lo /\ r.date <= hi}

(* WHERE habit_id = ? AND status = 1 ORDER BY date DESC *)
completed_desc(L, h) ==
    reversed(order_by_date(L, {r \in BagToSet(L) : r.habit_id = h /\ r.status = 1}))

(* only today starting a streak *)
starts_streak_today_only(log_date) == log_date = Today

(* the first date that is not in the future starts the streak only when it *)
(* is today or yesterday                                                   *)
starts_streak(log_date) == log_date = Today \/ log_date = Today - 1

(* no date counting as one of the future *)
is_future_never(log_date) == FALSE

(* if log_date > today: a future date, skipped *)
is_future(log_date) == log_date > Today

(* the for loop of get_habit_streak from its k-th row on; NULL is None *)
RECURSIVE streak_loop(_, _, _, _, _)
streak_loop(rows, k, streak, last_completed_date, expected_date) ==
    IF k > Len(rows)
    THEN [current_streak |-> streak, last_completed_date |-> last_completed_date]
    ELSE LET log_date == rows[k].date IN
         IF last_completed_date = NULL
         THEN IF is_future(log_date)
              THEN streak_loop(rows, k + 1, streak, last_completed_date, expected_date)
              ELSE IF starts_streak(log_date)
                   THEN streak_loop(rows, k + 1, 1, log_date, log_date - 1)
                   ELSE [current_streak |-> streak, last_completed_date |-> log_date]
         ELSE IF log_date = expected_date
              THEN streak_loop(rows, k + 1, streak + 1, last_completed_date, log_date - 1)
              ELSE [current_streak |-> streak, last_completed_date |-> last_completed_date]

get_habit_streak(L, habit_id) ==
    IF completed_desc(L, habit_id) = <<>>
    THEN [current_streak |-> 0, last_completed_date |-> NULL]
    ELSE streak_loop(completed_desc(L, habit_id), 1, 0, NULL, NULL)

(* round(x, 1) for x = num / den * 100, in tenths of a percent: the nearest *)
(* tenth, a tie going to the even one                                       *)
round1(num, den) ==
    LET q == (num * 1000) \div den
        r == (num * 1000) % den
    IN  IF 2 * r > den \/ (2 * r = den /\ q % 2 = 1) THEN q + 1 ELSE q

(* the window left open at its end: the logs after today counted too *)
get_completion_stats_open_end(L, habit_id, days) ==
    LET start_date == Today - (days - 1)
        completed_days == BagCardinality(
            [r \in {x \in BagToSet(L) : x.habit_id = habit_id /\ x.date >= start_date
                                          /\ x.status = 1}
                |-> L[r]])
    IN  [total_days |-> days,
         completed_days |-> completed_days,
         completion_rate |-> IF days > 0 THEN round1(completed_days, days) ELSE 0]

(* the count taken over every log of the window, whatever its status *)
get_completion_stats_any_status(L, habit_id, days) ==
    LET start_date == Today - (days - 1)
        completed_days == BagCardinality(
            [r \in rows_between(L, habit_id, start_date, Today) |-> L[r]])
    IN  [total_days |-> days,
         completed_days |-> completed_days,
         completion_rate |-> IF days > 0 THEN round1(completed_days, days) ELSE 0]

get_completion_stats(L, habit_id, days) ==
    LET start_date == Today - (days - 1)
        completed_days == BagCardinality(
            [r \in {x \in rows_between(L, habit_id, start_date, Today) : x.status = 1}
                |-> L[r]])
    IN  [total_days |-> days,
         completed_days |-> completed_days,
         completion_rate |-> IF days > 0 THEN round1(completed_days, days) ELSE 0]

-----------------------------------------------------------------------------
(* services/dashboard_service.py *)

(* logs_list: date, bool(status), value of each row of the range *)
logs_list(rows) ==
    [k \in 1..Len(rows) |->
        [date |-> rows[k].date, status |-> rows[k].status # 0, value |-> rows[k].value]]

habit_data(H, L, habit_id, days) ==
    LET stats == get_completion_stats(L, habit_id, days)
    IN  [id |-> habit_id,
         created_at |-> H[habit_id].created_at,
         current_streak |-> get_habit_streak(L, habit_id).current_streak,
         completion_rate |-> stats.completion_rate,
         completed_days |-> stats.completed_days,
         total_days |-> stats.total_days,
         logs |-> logs_list(order_by_date(L,
                     rows_between(L, habit_id, Today - (days - 1), Today)))]

get_public_dashboard_data(H, L, days) ==
    LET public_habits == get_active_habits(H, FALSE)
    IN  [habits |-> [k \in 1..Len(public_habits) |-> habit_data(H, L, public_habits[k], days)],
         date_range |-> [start |-> Today - (days - 1), end |-> Today]]

(* the map built from the logs of every date *)
logs_map_any_date(L, date) ==
    [h \in {r.habit_id : r \in BagToSet(L)} |->
        LET log == CHOOSE r \in BagToSet(L) : r.habit_id = h
        IN  [status |-> log.status # 0, value |-> log.value]]

(* logs_map: habit_id -> {status: bool(status), value} of the rows with     *)
(* date = ?                                                                 *)
logs_map(L, date) ==
    [h \in {r.habit_id : r \in {x \in BagToSet(L) : x.date = date}} |->
        LET log == CHOOSE r \in BagToSet(L) : r.habit_id = h /\ r.date = date
        IN  [status |-> log.status # 0, value |-> log.value]]

(* get_admin_tracking_data(date): every active habit with its log of the    *)
(* date, or the default {status: False, value: None}                        *)
get_admin_tracking_data(H, L, date) ==
    LET active_habits == get_active_habits(H, TRUE)
        map == logs_map(L, date)
    IN  [date |-> date,
         habits |-> [k \in 1..Len(active_habits) |->
             LET habit_id == active_habits[k]
                 is_logged == habit_id \in DOMAIN map
             IN  [id |-> habit_id,
                  is_public |-> H[habit_id].is_public # 0,
                  order_index |-> H[habit_id].order_index,
                  is_logged |-> is_logged,
                  status |-> IF is_logged THEN map[habit_id].status ELSE FALSE,
                  value |-> IF is_logged THEN map[habit_id].value ELSE NULL]]]

(* The calendar of the model.  datetime(year, 1, 1), range(1, 13) and       *)
(* monthrange(year, month_num) of the code, with a year cut down to         *)
(* MonthsPerYear months of DaysPerMonth days; today is day TodayOffset      *)
(* (counted from 0) of the current year.                                    *)
MonthsPerYear == 2
DaysPerMonth == 2
TodayOffset == 1

(* datetime.now().year *)
CurrentYear == 2026

DaysPerYear == MonthsPerYear * DaysPerMonth

(* datetime(year, month_num, day_num).date() *)
date_of(year, month_num, day_num) ==
    (Today - TodayOffset) + (year - CurrentYear) * DaysPerYear
        + (month_num - 1) * DaysPerMonth + (day_num - 1)

is_leap_year(year) == (year % 4 = 0 /\ year % 100 # 0) \/ year % 400 = 0

(* SELECT MIN(date) FROM logs WHERE habit_id = h *)
first_log_date(L, h) ==
    LET dates == {r.date : r \in {x \in BagToSet(L) : x.habit_id = h}}
    IN  CHOOSE d \in dates : \A e \in dates : d <= e

(* created_at taken whether the habit has a log or not *)
effective_start_created_at(H, L, h) == H[h].created_at

(* habit_created_dates: the first log date of a habit, or the date part of  *)
(* created_at when it has no log                                            *)
effective_start(H, L, h) ==
    IF \E r \in BagToSet(L) : r.habit_id = h
    THEN first_log_date(L, h)
    ELSE H[h].created_at

(* every public habit, whenever it was created *)
heatmap_habits_any_created(H, year) == {h \in DOMAIN H : H[h].is_public = 1}

(* all_habits: WHERE is_public = 1 AND created_at <= <year>-12-31 23:59:59 *)
heatmap_habits(H, year) ==
    {h \in DOMAIN H : H[h].is_public = 1
                      /\ H[h].created_at <= date_of(year, MonthsPerYear, DaysPerMonth)}

(* the logs of the date, whatever their status *)
completed_on_date_any_status(L, habit_ids, year, date) ==
    {r.habit_id : r \in {x \in BagToSet(L) : x.habit_id \in habit_ids /\ x.date = date}}

(* completed_by_date.get(date_str, set()): logs of these habits with        *)
(* status = 1 and a date of the year                                        *)
completed_on_date(L, habit_ids, year, date) ==
    {r.habit_id : r \in {x \in BagToSet(L) :
        /\ x.habit_id \in habit_ids
        /\ x.status = 1
        /\ x.date = date
        /\ x.date >= date_of(year, 1, 1)
        /\ x.date <= date_of(year, MonthsPerYear, DaysPerMonth)}}

(* day_data; completion_percentage in tenths of a percent *)
day_data(H, L, year, month_num, day_num) ==
    LET date == date_of(year, month_num, day_num)
        habit_ids == heatmap_habits(H, year)
        habits_on_date == {h \in habit_ids : effective_start(H, L, h) <= date}
        total == Cardinality(habits_on_date)
        completed_count ==
            IF total = 0 THEN 0
            ELSE Cardinality(completed_on_date(L, habit_ids, year, date) \cap habits_on_date)
    IN  [date |-> date,
         day_of_month |-> day_num,
         completion_percentage |-> IF total = 0 THEN 0 ELSE round1(completed_count, total),
         completed_count |-> completed_count,
         total_count |-> total]

month_data(H, L, year, month_num) ==
    [month |-> month_num,
     days |-> [day_num \in 1..DaysPerMonth |-> day_data(H, L, year, month_num, day_num)]]

(* all_days_data: the days of the year with total_count > 0, in order *)
RECURSIVE flatten(_)
flatten(months) ==
    IF months = <<>> THEN <<>> ELSE Head(months).days \o flatten(Tail(months))

(* every day of the year, counted or not *)
all_days_data_unfiltered(months) == flatten(months)

all_days_data(months) == SelectSeq(flatten(months), LAMBDA d : d.total_count > 0)

RECURSIVE sum_percentage(_)
sum_percentage(days) ==
    IF days = <<>> THEN 0 ELSE Head(days).completion_percentage + sum_percentage(Tail(days))

(* round(sum / n, 1) on tenths: the nearest tenth, a tie to the even one *)
round_mean(sum, n) ==
    LET q == sum \div n
        r == sum % n
    IN  IF 2 * r > n \/ (2 * r = n /\ q % 2 = 1) THEN q + 1 ELSE q

(* max(all_days_data, key=...) and min(...): the first day with the highest *)
(* (lowest) percentage                                                      *)
best_index(days) ==
    CHOOSE k \in 1..Len(days) :
        /\ \A j \in 1..Len(days) : days[j].completion_percentage <= days[k].completion_percentage
        /\ \A j \in 1..(k - 1) : days[j].completion_percentage < days[k].completion_percentage

worst_index(days) ==
    CHOOSE k \in 1..Len(days) :
        /\ \A j \in 1..Len(days) : days[j].completion_percentage >= days[k].completion_percentage
        /\ \A j \in 1..(k - 1) : days[j].completion_percentage > days[k].completion_percentage

day_ref(day) == <<[date |-> day.date, percentage |-> day.completion_percentage]>>

(* overall_stats; best_day and worst_day are <<>> for None, else <<day>> *)
overall_stats(days) ==
    IF Len(days) > 0
    THEN [total_days_tracked |-> Len(days),
          average_completion |-> round_mean(sum_percentage(days), Len(days)),
          best_day |-> day_ref(days[best_index(days)]),
          worst_day |-> day_ref(days[worst_index(days)])]
    ELSE [total_days_tracked |-> 0, average_completion |-> 0,
          best_day |-> <<>>, worst_day |-> <<>>]

(* the months built even when no habit qualifies *)
get_yearly_heatmap_data_no_early_return(H, L, year_arg) ==
    LET year == IF year_arg = NULL THEN CurrentYear ELSE year_arg
        months == [month_num \in 1..MonthsPerYear |-> month_data(H, L, year, month_num)]
    IN  [year |-> year, is_leap_year |-> is_leap_year(year), months |-> months,
         overall_stats |-> overall_stats(all_days_data(months)),
         habit_created_dates |->
             [h \in heatmap_habits(H, year) |-> effective_start(H, L, h)]]

(* get_yearly_heatmap_data(year); year = NULL is the default None.  Beside  *)
(* the keys of the returned dict the value carries habit_created_dates, the *)
(* function's local map habit_id -> effective start date, which tells whose *)
(* logs the counts are of.                                                  *)
get_yearly_heatmap_data(H, L, year_arg) ==
    LET year == IF year_arg = NULL THEN CurrentYear ELSE year_arg
        months == [month_num \in 1..MonthsPerYear |-> month_data(H, L, year, month_num)]
    IN  IF heatmap_habits(H, year) = {}
        THEN [year |-> year, is_leap_year |-> is_leap_year(year), months |-> <<>>,
              overall_stats |-> overall_stats(<<>>),
              habit_created_dates |-> <<>>]
        ELSE [year |-> year, is_leap_year |-> is_leap_year(year), months |-> months,
              overall_stats |-> overall_stats(all_days_data(months)),
              habit_created_dates |->
                  [h \in heatmap_habits(H, year) |-> effective_start(H, L, h)]]

(* ORDER BY created_at DESC; rows of one created_at in rowid order *)
RECURSIVE order_by_created_desc(_, _)
order_by_created_desc(H, ids) ==
    IF ids = {} THEN <<>>
    ELSE LET first == CHOOSE i \in ids : \A j \in ids :
                          \/ H[i].created_at > H[j].created_at
                          \/ H[i].created_at = H[j].created_at /\ i <= j
         IN  <<first>> \o order_by_created_desc(H, ids \ {first})

(* the loop with an incomplete day leaving the running streak as it is *)
RECURSIVE longest_streak_loop_no_reset(_, _, _, _, _)
longest_streak_loop_no_reset(rows, k, longest_streak, current_streak, prev_date) ==
    IF k > Len(rows) THEN longest_streak
    ELSE IF rows[k].status # 0
         THEN LET current == IF prev_date = NULL THEN 1
                             ELSE IF rows[k].date - prev_date = 1
                                  THEN current_streak + 1 ELSE 1
              IN  longest_streak_loop_no_reset(rows, k + 1,
                      IF current > longest_streak THEN current ELSE longest_streak,
                      current, rows[k].date)
         ELSE longest_streak_loop_no_reset(rows, k + 1, longest_streak,
                                           current_streak, rows[k].date)

(* the streak loop of get_archived_habits_data from its k-th log on;        *)
(* prev_date = NULL is None                                                 *)
RECURSIVE longest_streak_loop(_, _, _, _, _)
longest_streak_loop(rows, k, longest_streak, current_streak, prev_date) ==
    IF k > Len(rows) THEN longest_streak
    ELSE IF rows[k].status # 0
         THEN LET current == IF prev_date = NULL THEN 1
                             ELSE IF rows[k].date - prev_date = 1
                                  THEN current_streak + 1 ELSE 1
              IN  longest_streak_loop(rows, k + 1,
                      IF current > longest_streak THEN current ELSE longest_streak,
                      current, rows[k].date)
         ELSE longest_streak_loop(rows, k + 1, longest_streak, 0, rows[k].date)

archived_habit_data(H, L, habit_id) ==
    LET rows == order_by_date(L, {r \in BagToSet(L) : r.habit_id = habit_id})
        total_completions == Len(SelectSeq(rows, LAMBDA r : r.status # 0))
    IN  [id |-> habit_id,
         created_at |-> H[habit_id].created_at,
         total_completions |-> total_completions,
         total_days_tracked |-> Len(rows),
         completion_rate |-> round1(total_completions, Len(rows)),
         longest_streak |-> longest_streak_loop(rows, 1, 0, 0, NULL),
         date_range |-> [first_log |-> rows[1].date, last_log |-> rows[Len(rows)].date]]

(* the public habits with a log, active or not *)
get_archived_habits_data_any_activity(H, L) ==
    LET archived_habits == order_by_created_desc(H, {h \in DOMAIN H : H[h].is_public = 1})
        with_logs == SelectSeq(archived_habits,
                               LAMBDA h : \E r \in BagToSet(L) : r.habit_id = h)
    IN  [k \in 1..Len(with_logs) |-> archived_habit_data(H, L, with_logs[k])]

(* get_archived_habits_data: habits with is_active = 0 and is_public = 1    *)
(* that have a log                                                          *)
get_archived_habits_data(H, L) ==
    LET archived_habits == order_by_created_desc(H,
            {h \in DOMAIN H : H[h].is_active = 0 /\ H[h].is_public = 1})
        with_logs == SelectSeq(archived_habits,
                               LAMBDA h : \E r \in BagToSet(L) : r.habit_id = h)
    IN  [k \in 1..Len(with_logs) |-> archived_habit_data(H, L, with_logs[k])]

-----------------------------------------------------------------------------
(* services/cache_service.py.  The cache maps each key it holds to the      *)
(* tuple (value, timestamp, duration); now is time.time() in seconds.       *)

(* Config.CACHE_DURATION *)
CACHE_DURATION == 3600

cache_without(C, key) == [k \in DOMAIN C \ {key} |-> C[k]]

expired_at_duration(entry, now) == now - entry.timestamp >= entry.duration

expired(entry, now) == now - entry.timestamp > entry.duration

(* CacheService.get: whether it returns a value (and not None) *)
cache_hit(C, key, now) == key \in DOMAIN C /\ ~expired(C[key], now)

(* CacheService.get: the cache it leaves, an expired entry deleted *)
cache_after_get(C, key, now) ==
    IF key \in DOMAIN C /\ expired(C[key], now) THEN cache_without(C, key) ELSE C

(* CacheService.set with the default duration *)
set_cached(C, key, value, now) ==
    [k \in DOMAIN C \cup {key} |->
        IF k = key THEN [value |-> value, timestamp |-> now, duration |-> CACHE_DURATION]
        ELSE C[k]]

(* CacheService.set: duration None takes Config.CACHE_DURATION *)
cache_set(C, key, value, duration, now) ==
    [k \in DOMAIN C \cup {key} |->
        IF k = key
        THEN [value |-> value, timestamp |-> now,
              duration |-> IF duration = NULL THEN CACHE_DURATION ELSE duration]
        ELSE C[k]]

(* CacheService.get: the value it returns, None (NULL) on a miss *)
cache_get(C, key, now) == IF cache_hit(C, key, now) THEN C[key].value ELSE NULL

invalidate_cache(C, key) == IF key \in DOMAIN C THEN cache_without(C, key) ELSE C

(* CacheService.clear *)
clear_all_cache(C) == <<>>

invalidate_dashboard_cache(C) ==
    invalidate_cache(invalidate_cache(C, "public_dashboard_data"), "public_dashboard_json")

(* f'heatmap_data_{year or "current"}' *)
heatmap_key(year) == IF year = NULL THEN "heatmap_data_current"
                     ELSE "heatmap_data_" \o ToString(year)

-----------------------------------------------------------------------------
(* The service calls as actions on the two tables *)

create_habit(is_public) ==
    /\ habits' = insert_habit(habits, is_public)
    /\ UNCHANGED logs

update_habit(habit_id, kwargs) ==
    /\ habits' = updated_habits(habits, habit_id, kwargs)
    /\ UNCHANGED logs

reorder_habits(habit_ids) ==
    /\ habits' = reordered(habits, habit_ids, 1)
    /\ UNCHANGED logs

delete_habit(habit_id) ==
    /\ habits' = deactivated(habits, habit_id)
    /\ UNCHANGED logs

hard_delete_habit(habit_id) ==
    /\ habits' = hard_deleted(habits, habit_id)
    /\ logs' = cascade_deleted(logs, habit_id)

(* raises (and writes nothing) when the insert violates the foreign key *)
upsert_log(habit_id, date, status) ==
    /\ logs' = IF foreign_key_ok(habits, habit_id)
               THEN execute_upsert(logs, habit_id, date, status_int(status))
               ELSE logs
    /\ UNCHANGED habits

delete_log(habit_id, date) ==
    /\ logs' = execute_delete(logs, habit_id, date)
    /\ UNCHANGED habits

save_day_logs(date, habit_statuses) ==
    /\ logs' = save_loop(habits, logs, date, habit_statuses, 1).logs
    /\ UNCHANGED habits

(* What the caller of a service function gets back: the function, its key  *)
(* arguments, whether it raised and its return value; and, to tell the     *)
(* cases of a call apart, the number of entries save_day_logs had upserted *)
(* when it returned or raised, and whether upsert_log found a row for its  *)
(* (habit_id, date); keys are the habit ids of a save_day_logs call in the  *)
(* order of its dict.                                                      *)
Call(op, h, d, raised, ret, done, existed) ==
    [op |-> op, habit_id |-> h, date |-> d, raised |-> raised, ret |-> ret,
     done |-> done, existed |-> existed, keys |-> <<>>]

(* What the client gets back: the handler, the status code and the JSON     *)
(* body (0 where the body is only a message); request keeps the date and    *)
(* the logs a save request carried (0 for every other request).             *)
Response(endpoint, status, body, request) ==
    [endpoint |-> endpoint, status |-> status, body |-> body, request |-> request]

-----------------------------------------------------------------------------
(* Inputs *)

Kwargs == UNION {[F -> BOOLEAN] : F \in SUBSET {"is_active", "is_public"}}

(* sequences of distinct habit ids, up to n long *)
DistinctSeqs(S, n) ==
    UNION {{q \in [1..k -> S] : \A a, b \in 1..k : a # b => q[a] # q[b]} : k \in 0..n}

(* a dict habit_id -> entry in insertion order: distinct keys *)
HabitStatusesOf(E) ==
    UNION {{[k \in 1..Len(q) |-> [habit_id |-> q[k], status |-> e[k]]] :
                e \in [1..Len(q) -> E]} : q \in DistinctSeqs(HabitIds, MaxEntries)}

HabitStatuses == HabitStatusesOf(Entries)

BoolStatuses == HabitStatusesOf({BoolEntry(s) : s \in BOOLEAN})

(* the dates the log operations write to *)
Yesterday == Today - 1
LogDates == {Yesterday, Today}

-----------------------------------------------------------------------------
(* Spec: the habit and log services, called in any order *)

(* routes/public.py: dashboard_data asks for days=30 *)
DashboardDays == 30

Init ==
    /\ habits = <<>>
    /\ logs = EmptyBag
    /\ last = Call("init", 0, 0, FALSE, 0, 0, FALSE)
    /\ cache = <<>>
    /\ clock = 0
    /\ session = FALSE
    /\ response = Response("init", 0, 0, 0)
    /\ inflight = [reader |-> "idle", dashboard |-> 0, overlapped |-> FALSE,
                   writer |-> "idle", saved |-> 0]
    /\ written = <<>>

Next ==
    \/ /\ Cardinality(DOMAIN habits) < MaxHabits
       /\ \E p \in BOOLEAN : create_habit(p) /\ UNCHANGED <<last, webVars>>
    \/ \E h \in HabitIds, kw \in Kwargs : update_habit(h, kw) /\ UNCHANGED <<last, webVars>>
    \/ \E q \in DistinctSeqs(HabitIds, MaxHabits) : reorder_habits(q) /\ UNCHANGED <<last, webVars>>
    \/ \E h \in HabitIds : delete_habit(h) /\ UNCHANGED <<last, webVars>>
    \/ \E h \in HabitIds, s \in BOOLEAN : upsert_log(h, Today, BoolEntry(s)) /\ UNCHANGED <<last, webVars>>
    \/ \E hs \in BoolStatuses : save_day_logs(Today, hs) /\ UNCHANGED <<last, webVars>>

Spec == Init /\ [][Next]_vars

-----------------------------------------------------------------------------
(* SpecLogs: upsert_log and delete_log on two dates and save_day_logs on   *)
(* today, called with boolean statuses, with what each call returned       *)

UpsertLogCall(h, d, s) ==
    /\ upsert_log(h, d, BoolEntry(s))
    /\ last' = Call("upsert_log", h, d, ~foreign_key_ok(habits, h), 0, 0,
                    rows_of(logs, h, d) # {})
    /\ UNCHANGED webVars

DeleteLogCall(h, d) ==
    /\ delete_log(h, d)
    /\ last' = Call("delete_log", h, d, FALSE, count_rows(logs, h, d), 0, FALSE)
    /\ UNCHANGED webVars

SaveDayLogsCall(d, hs) ==
    /\ save_day_logs(d, hs)
    /\ LET r == save_loop(habits, logs, d, hs, 1)
       IN  last' = [Call("save_day_logs", 0, d, r.raised,
                         IF r.raised THEN 0 ELSE r.count, r.count, FALSE)
                        EXCEPT !.keys = [k \in 1..Len(hs) |-> hs[k].habit_id]]
    /\ UNCHANGED webVars

NextLogs ==
    \/ /\ Cardinality(DOMAIN habits) < MaxHabits
       /\ create_habit(TRUE)
       /\ last' = Call("create_habit", 0, 0, FALSE, next_habit_id(habits), 0, FALSE)
       /\ UNCHANGED webVars
    \/ \E h \in HabitIds, d \in LogDates, s \in BOOLEAN : UpsertLogCall(h, d, s)
    \/ \E h \in HabitIds, d \in LogDates : DeleteLogCall(h, d)
    \/ \E hs \in BoolStatuses : SaveDayLogsCall(Today, hs)

SpecLogs == Init /\ [][NextLogs]_vars

-----------------------------------------------------------------------------
(* SpecSave: save_day_logs on one date with every form of entry, boolean   *)
(* or {status, value}, for habits that exist and habits that do not, next  *)
(* to a log of the day before                                              *)

NextSave ==
    \/ /\ Cardinality(DOMAIN habits) < MaxHabits
       /\ create_habit(TRUE)
       /\ last' = Call("create_habit", 0, 0, FALSE, next_habit_id(habits), 0, FALSE)
       /\ UNCHANGED webVars
    \/ \E s \in BOOLEAN : UpsertLogCall(1, Yesterday, s)
    \/ \E h \in HabitIds : DeleteLogCall(h, Today)
    \/ \E hs \in HabitStatuses : SaveDayLogsCall(Today, hs)

SpecSave == Init /\ [][NextSave]_vars

-----------------------------------------------------------------------------
(* SpecStreak: the log history of one habit over the days around today,    *)
(* and get_habit_streak applied to it                                      *)

StreakDays == 3         \* days before today that get logs
FutureDays == 2         \* days after today that get logs
StreakDates == (Today - StreakDays)..(Today + FutureDays)

GetHabitStreakCall(h) ==
    /\ last' = Call("get_habit_streak", h, get_habit_streak(logs, h).last_completed_date,
                    FALSE, get_habit_streak(logs, h).current_streak, 0, FALSE)
    /\ UNCHANGED <<habits, logs, webVars>>

NextStreak ==
    \/ /\ Cardinality(DOMAIN habits) < MaxHabits
       /\ create_habit(TRUE)
       /\ last' = Call("create_habit", 0, 0, FALSE, next_habit_id(habits), 0, FALSE)
       /\ UNCHANGED webVars
    \/ \E d \in StreakDates, s \in BOOLEAN : UpsertLogCall(1, d, s)
    \/ \E d \in StreakDates : DeleteLogCall(1, d)
    \/ GetHabitStreakCall(1)

SpecStreak == Init /\ [][NextStreak]_vars

-----------------------------------------------------------------------------
(* SpecStats: the log history of one habit over the days around today, and *)
(* get_completion_stats and get_public_dashboard_data called with windows   *)
(* of any sign                                                              *)

MaxWindow == 3          \* the short windows are -1..MaxWindow days
LongWindow == 2001      \* a window of several years
Windows == ((-1)..MaxWindow) \cup {DashboardDays, LongWindow}

(* the days that get logs: those of the longest short window, the day       *)
(* before it and tomorrow                                                   *)
StatsDates == (Today - MaxWindow)..(Today + 1)

(* What the caller of a statistics function gets back.  Neither function    *)
(* has a raise on its path, nor does timedelta, strftime or the query for   *)
(* any of these windows: the call always returns.                           *)
StatsCall(op, h, days, ret) ==
    [op |-> op, habit_id |-> h, days |-> days, raised |-> FALSE, ret |-> ret]

GetCompletionStatsCall(h, days) ==
    /\ last' = StatsCall("get_completion_stats", h, days,
                         get_completion_stats(logs, h, days))
    /\ UNCHANGED <<habits, logs, webVars>>

GetPublicDashboardDataCall(days) ==
    /\ last' = StatsCall("get_public_dashboard_data", 0, days,
                         get_public_dashboard_data(habits, logs, days))
    /\ UNCHANGED <<habits, logs, webVars>>

NextStats ==
    \/ /\ Cardinality(DOMAIN habits) < MaxHabits
       /\ create_habit(TRUE)
       /\ last' = Call("create_habit", 0, 0, FALSE, next_habit_id(habits), 0, FALSE)
       /\ UNCHANGED webVars
    \/ \E d \in StatsDates, s \in BOOLEAN : UpsertLogCall(1, d, s)
    \/ \E d \in StatsDates : DeleteLogCall(1, d)
    \/ \E n \in Windows : GetCompletionStatsCall(1, n)
    \/ \E n \in Windows : GetPublicDashboardDataCall(n)

SpecStats == Init /\ [][NextStats]_vars

-----------------------------------------------------------------------------
(* SpecHeatmap: get_yearly_heatmap_data for last year, this year (the       *)
(* default) and next                                                        *)
(* year, over a store that may hold a habit created a year ago, habits      *)
(* created today, public or private, active or soft-deleted, and logs of    *)
(* either year.                                                             *)

MaxLogs == 2            \* rows of table logs

(* a day of last year, yesterday and tomorrow *)
HeatDates == {Today - DaysPerYear, Today - 1, Today + 1}

HeatYears == {NULL, CurrentYear - 1, CurrentYear + 1}

(* the store a year after create_habit(is_public=True) ran on an empty one *)
year_old_store ==
    [i \in {1} |-> [insert_habit(<<>>, TRUE)[1] EXCEPT !.created_at = Today - DaysPerYear]]

InitHeatmap ==
    /\ habits \in {<<>>, year_old_store}
    /\ logs = EmptyBag
    /\ last = Call("init", 0, 0, FALSE, 0, 0, FALSE)
    /\ cache = <<>>
    /\ clock = 0
    /\ session = FALSE
    /\ response = Response("init", 0, 0, 0)
    /\ inflight = [reader |-> "idle", dashboard |-> 0, overlapped |-> FALSE,
                   writer |-> "idle", saved |-> 0]
    /\ written = <<>>

HeatmapCall(year, ret) ==
    [op |-> "get_yearly_heatmap_data", year |-> year, raised |-> FALSE, ret |-> ret]

GetYearlyHeatmapDataCall(year) ==
    /\ last' = HeatmapCall(year, get_yearly_heatmap_data(habits, logs, year))
    /\ UNCHANGED <<habits, logs, webVars>>

NextHeatmap ==
    \/ /\ Cardinality(DOMAIN habits) < MaxHabits
       /\ \E p \in BOOLEAN :
             /\ create_habit(p)
             /\ last' = Call("create_habit", 0, 0, FALSE, 0, 0, FALSE)
       /\ UNCHANGED webVars
    \/ /\ delete_habit(1)
       /\ last' = Call("delete_habit", 0, 0, FALSE, 0, 0, FALSE)
       /\ UNCHANGED webVars
    \/ \E h \in HabitIds, d \in HeatDates, s \in BOOLEAN :
          /\ rows_of(logs, h, d) # {} \/ BagCardinality(logs) < MaxLogs
          /\ upsert_log(h, d, BoolEntry(s))
          /\ last' = Call("upsert_log", 0, 0, FALSE, 0, 0, FALSE)
          /\ UNCHANGED webVars
    \/ \E y \in HeatYears : GetYearlyHeatmapDataCall(y)

SpecHeatmap == InitHeatmap /\ [][NextHeatmap]_vars

-----------------------------------------------------------------------------
(* SpecTracking: the admin tracking view of a date over habits that are     *)
(* public or private, active or soft-deleted and reordered, with logs of    *)
(* two dates                                                                *)

(* the orders reorder_habits is given: every habit of the store, once *)
Orders == {q \in DistinctSeqs(HabitIds, MaxHabits) :
              {q[k] : k \in 1..Len(q)} = DOMAIN habits}

TrackingCall(date, ret) ==
    [op |-> "get_admin_tracking_data", date |-> date, raised |-> FALSE, ret |-> ret]

GetAdminTrackingDataCall(date) ==
    /\ last' = TrackingCall(date, get_admin_tracking_data(habits, logs, date))
    /\ UNCHANGED <<habits, logs, webVars>>

NextTracking ==
    \/ /\ Cardinality(DOMAIN habits) < MaxHabits
       /\ \E p \in BOOLEAN :
             /\ create_habit(p)
             /\ last' = Call("create_habit", 0, 0, FALSE, 0, 0, FALSE)
       /\ UNCHANGED webVars
    \/ \E h \in HabitIds :
          /\ delete_habit(h)
          /\ last' = Call("delete_habit", 0, 0, FALSE, 0, 0, FALSE)
          /\ UNCHANGED webVars
    \/ \E q \in Orders :
          /\ reorder_habits(q)
          /\ last' = Call("reorder_habits", 0, 0, FALSE, 0, 0, FALSE)
          /\ UNCHANGED webVars
    \/ \E h \in HabitIds, d \in LogDates, s \in BOOLEAN :
          /\ rows_of(logs, h, d) # {} \/ BagCardinality(logs) < MaxLogs
          /\ upsert_log(h, d, BoolEntry(s))
          /\ last' = Call("upsert_log", 0, 0, FALSE, 0, 0, FALSE)
          /\ UNCHANGED webVars
    \/ \E d \in LogDates : GetAdminTrackingDataCall(d)

SpecTracking == Init /\ [][NextTracking]_vars

-----------------------------------------------------------------------------
(* SpecArchived: the log history of one public habit over a run of days,    *)
(* the habit soft-deleted at some point, and get_archived_habits_data       *)

ArchivedDays == 5       \* the days that get logs, ending today
ArchivedDates == (Today - ArchivedDays + 1)..Today

ArchivedCall(ret) ==
    [op |-> "get_archived_habits_data", raised |-> FALSE, ret |-> ret]

GetArchivedHabitsDataCall ==
    /\ last' = ArchivedCall(get_archived_habits_data(habits, logs))
    /\ UNCHANGED <<habits, logs, webVars>>

NextArchived ==
    \/ /\ Cardinality(DOMAIN habits) < MaxHabits
       /\ create_habit(TRUE)
       /\ last' = Call("create_habit", 0, 0, FALSE, 0, 0, FALSE)
       /\ UNCHANGED webVars
    \/ /\ delete_habit(1)
       /\ last' = Call("delete_habit", 0, 0, FALSE, 0, 0, FALSE)
       /\ UNCHANGED webVars
    \/ \E d \in ArchivedDates, s \in BOOLEAN :
          /\ upsert_log(1, d, BoolEntry(s))
          /\ last' = Call("upsert_log", 0, 0, FALSE, 0, 0, FALSE)
          /\ UNCHANGED webVars
    \/ \E d \in ArchivedDates :
          /\ delete_log(1, d)
          /\ last' = Call("delete_log", 0, 0, FALSE, 0, 0, FALSE)
          /\ UNCHANGED webVars
    \/ GetArchivedHabitsDataCall

SpecArchived == Init /\ [][NextArchived]_vars

-----------------------------------------------------------------------------
(* SpecHabits: habits created, reordered with any list of ids, soft-deleted *)
(* and hard-deleted, beside logs of today, with what each call was given    *)

CreateHabitCall ==
    /\ create_habit(TRUE)
    /\ last' = Call("create_habit", 0, 0, FALSE, next_habit_id(habits), 0, FALSE)
    /\ UNCHANGED webVars

ReorderHabitsCall(habit_ids) ==
    /\ reorder_habits(habit_ids)
    /\ last' = [Call("reorder_habits", 0, 0, FALSE, reorder_count(habits, habit_ids, 1),
                     0, FALSE) EXCEPT !.keys = habit_ids]
    /\ UNCHANGED webVars

DeleteHabitCall(h) ==
    /\ delete_habit(h)
    /\ last' = Call("delete_habit", h, 0, FALSE, Cardinality(get_habit_by_id(habits, h)),
                    0, FALSE)
    /\ UNCHANGED webVars

HardDeleteHabitCall(h) ==
    /\ hard_delete_habit(h)
    /\ last' = Call("hard_delete_habit", h, 0, FALSE,
                    Cardinality(get_habit_by_id(habits, h)), 0, FALSE)
    /\ UNCHANGED webVars

NextHabits ==
    \/ Cardinality(DOMAIN habits) < MaxHabits /\ CreateHabitCall
    \/ \E q \in DistinctSeqs(HabitIds, MaxHabits) : ReorderHabitsCall(q)
    \/ \E h \in HabitIds : DeleteHabitCall(h)
    \/ \E h \in HabitIds : HardDeleteHabitCall(h)
    \/ \E h \in HabitIds :
          /\ upsert_log(h, Today, BoolEntry(TRUE))
          /\ last' = Call("upsert_log", 0, 0, FALSE, 0, 0, FALSE)
          /\ UNCHANGED webVars

SpecHabits == Init /\ [][NextHabits]_vars

-----------------------------------------------------------------------------
(* SpecBounds: the heatmap and the completion statistics over the same     *)
(* stores, with logs of yesterday, today and tomorrow                      *)

ShortWindow == 2        \* the longest window of get_completion_stats here
BoundsDates == {Today - 1, Today, Today + 1}
BoundsWindows == 1..ShortWindow

NextBounds ==
    \/ /\ Cardinality(DOMAIN habits) < MaxHabits
       /\ \E p \in BOOLEAN :
             /\ create_habit(p)
             /\ last' = Call("create_habit", 0, 0, FALSE, 0, 0, FALSE)
       /\ UNCHANGED webVars
    \/ \E h \in HabitIds, d \in BoundsDates, s \in BOOLEAN :
          /\ rows_of(logs, h, d) # {} \/ BagCardinality(logs) < MaxLogs
          /\ upsert_log(h, d, BoolEntry(s))
          /\ last' = Call("upsert_log", 0, 0, FALSE, 0, 0, FALSE)
          /\ UNCHANGED webVars
    \/ \E y \in HeatYears : GetYearlyHeatmapDataCall(y)
    \/ \E h \in HabitIds, n \in BoundsWindows : GetCompletionStatsCall(h, n)

SpecBounds == InitHeatmap /\ [][NextBounds]_vars

-----------------------------------------------------------------------------
(* SpecCache: the cache on its own, with time passing between the calls *)

MaxCacheTicks == 2      \* seconds the clock may run past the default duration
ShortDuration == 1      \* an explicit duration argument of CacheService.set
CacheKeys == {"dashboard_data", "public_dashboard_data"}
CacheValues == {1, 2}
Durations == {NULL, ShortDuration}

(* the last cache call: its key ("" where it takes none) and what it returned *)
CacheCall(op, key, ret) == [op |-> op, key |-> key, ret |-> ret]

(* the history of a set, an invalidate and a clear *)
written_set(W, key, value, duration, now) ==
    [k \in DOMAIN W \cup {key} |->
        IF k = key
        THEN [value |-> value, at |-> now, live |-> TRUE,
              ttl |-> IF duration = NULL THEN CACHE_DURATION ELSE duration]
        ELSE W[k]]

written_dead(W, keys) ==
    [k \in DOMAIN W |-> IF k \in keys THEN [W[k] EXCEPT !.live = FALSE] ELSE W[k]]

SetCachedCall(key, value, duration) ==
    /\ cache' = cache_set(cache, key, value, duration, clock)
    /\ written' = written_set(written, key, value, duration, clock)
    /\ last' = CacheCall("set_cached", key, NULL)
    /\ UNCHANGED <<habits, logs, clock, session, response, inflight>>

GetCachedCall(key) ==
    /\ cache' = cache_after_get(cache, key, clock)
    /\ last' = CacheCall("get_cached", key, cache_get(cache, key, clock))
    /\ UNCHANGED <<habits, logs, clock, session, response, inflight, written>>

InvalidateCacheCall(key) ==
    /\ cache' = invalidate_cache(cache, key)
    /\ written' = written_dead(written, {key})
    /\ last' = CacheCall("invalidate_cache", key, NULL)
    /\ UNCHANGED <<habits, logs, clock, session, response, inflight>>

ClearAllCacheCall ==
    /\ cache' = clear_all_cache(cache)
    /\ written' = written_dead(written, DOMAIN written)
    /\ last' = CacheCall("clear_all_cache", "", NULL)
    /\ UNCHANGED <<habits, logs, clock, session, response, inflight>>

(* its two cache.invalidate calls are the invalidations the history keeps *)
InvalidateDashboardCacheCall ==
    /\ cache' = invalidate_dashboard_cache(cache)
    /\ written' = written_dead(written, {"public_dashboard_data", "public_dashboard_json"})
    /\ last' = CacheCall("invalidate_dashboard_cache", "", NULL)
    /\ UNCHANGED <<habits, logs, clock, session, response, inflight>>

(* time.time() moves on while no call runs, by a second or by the default  *)
(* duration; the second-long steps are bounded, and so is the clock        *)
CacheTick(seconds) ==
    /\ seconds = 1 => clock % CACHE_DURATION < MaxCacheTicks
    /\ seconds = CACHE_DURATION => clock < CACHE_DURATION
    /\ clock' = clock + seconds
    /\ last' = CacheCall("tick", "", NULL)
    /\ UNCHANGED <<habits, logs, cache, session, response, inflight, written>>

NextCache ==
    \/ \E k \in CacheKeys, v \in CacheValues, d \in Durations : SetCachedCall(k, v, d)
    \/ \E k \in CacheKeys : GetCachedCall(k)
    \/ \E k \in CacheKeys : InvalidateCacheCall(k)
    \/ ClearAllCacheCall
    \/ InvalidateDashboardCacheCall
    \/ \E n \in {1, CACHE_DURATION} : CacheTick(n)

SpecCache == Init /\ [][NextCache]_vars

-----------------------------------------------------------------------------
(* routes/: the HTTP handlers, one request at a time *)

Respond(endpoint, status) == response' = Response(endpoint, status, 0, 0)

(* utils/decorators.py login_required on an /api/ path: 401 and nothing else *)
Unauthorized(endpoint) ==
    /\ ~session
    /\ Respond(endpoint, 401)
    /\ UNCHANGED <<habits, logs, cache, session>>

(* login_required on a page that is not under /api/ and not requested as   *)
(* JSON: the redirect to the login page                                    *)
RedirectToLogin(endpoint) ==
    /\ ~session
    /\ Respond(endpoint, 302)
    /\ UNCHANGED <<habits, logs, cache, session>>

(* GET /track and GET /settings: the rendered page *)
admin_page(endpoint) ==
    \/ RedirectToLogin(endpoint)
    \/ /\ session
       /\ Respond(endpoint, 200)
       /\ UNCHANGED <<habits, logs, cache, session>>

(* GET /api/track/data?date=...; date = NULL is a missing parameter or a    *)
(* string strptime rejects                                                  *)
track_data(date) ==
    \/ Unauthorized("track_data")
    \/ /\ session
       /\ date = NULL
       /\ Respond("track_data", 400)
       /\ UNCHANGED <<habits, logs, cache, session>>
    \/ /\ session
       /\ date # NULL
       /\ response' = Response("track_data", 200,
                               get_admin_tracking_data(habits, logs, date), 0)
       /\ UNCHANGED <<habits, logs, cache, session>>

(* the list GET /api/habits answers with, is_active and is_public as bool *)
habits_list(H) ==
    LET all == get_all_habits(H, TRUE)
    IN  [k \in 1..Len(all) |->
            [id |-> all[k], is_active |-> H[all[k]].is_active # 0,
             is_public |-> H[all[k]].is_public # 0,
             order_index |-> H[all[k]].order_index,
             created_at |-> H[all[k]].created_at]]

(* GET /api/habits: every habit, private and inactive ones included *)
get_habits ==
    \/ Unauthorized("get_habits")
    \/ /\ session
       /\ response' = Response("get_habits", 200, habits_list(habits), 0)
       /\ UNCHANGED <<habits, logs, cache, session>>

(* the logs list of a save request -> habit_statuses: an item with a value  *)
(* that is not None becomes {'status': ..., 'value': ...}, any other item   *)
(* its bare status                                                          *)
to_habit_statuses(req_logs) ==
    [k \in 1..Len(req_logs) |->
        [habit_id |-> req_logs[k].habit_id,
         status |-> IF req_logs[k].value # NULL
                    THEN DictEntry(req_logs[k].status, req_logs[k].value)
                    ELSE BoolEntry(req_logs[k].status)]]

(* POST /api/track/save.  date = NULL stands for a string strptime rejects. *)
(* An exception of save_day_logs leaves the handler before the cache is     *)
(* invalidated and Flask answers 500.                                       *)
save_tracking(date, req_logs) ==
    \/ Unauthorized("save_tracking")
    \/ /\ session
       /\ date = NULL
       /\ Respond("save_tracking", 400)
       /\ UNCHANGED <<habits, logs, cache, session>>
    \/ /\ session
       /\ date # NULL
       /\ save_day_logs(date, to_habit_statuses(req_logs))
       /\ LET r == save_loop(habits, logs, date, to_habit_statuses(req_logs), 1)
          IN  IF r.raised
              THEN /\ cache' = cache
                   /\ response' = Response("save_tracking", 500, 0,
                                           [date |-> date, logs |-> req_logs])
              ELSE /\ cache' = invalidate_dashboard_cache(cache)
                   /\ response' = Response("save_tracking", 200, r.count,
                                           [date |-> date, logs |-> req_logs])
       /\ UNCHANGED session

(* POST /api/habits *)
create_new_habit(is_public) ==
    \/ Unauthorized("create_new_habit")
    \/ /\ session
       /\ create_habit(is_public)
       /\ cache' = invalidate_dashboard_cache(cache)
       /\ response' = Response("create_new_habit", 201, next_habit_id(habits), 0)
       /\ UNCHANGED session

(* PUT /api/habits/<habit_id> *)
update_existing_habit(habit_id, data) ==
    \/ Unauthorized("update_existing_habit")
    \/ /\ session
       /\ DOMAIN data = {}
       /\ Respond("update_existing_habit", 400)
       /\ UNCHANGED <<habits, logs, cache, session>>
    \/ /\ session
       /\ DOMAIN data # {}
       /\ get_habit_by_id(habits, habit_id) = {}
       /\ Respond("update_existing_habit", 404)
       /\ UNCHANGED <<habits, logs, cache, session>>
    \/ /\ session
       /\ DOMAIN data # {}
       /\ get_habit_by_id(habits, habit_id) # {}
       /\ update_habit(habit_id, data)
       /\ cache' = invalidate_dashboard_cache(cache)
       /\ Respond("update_existing_habit", 200)
       /\ UNCHANGED session

(* DELETE /api/habits/<habit_id> *)
delete_existing_habit(habit_id) ==
    \/ Unauthorized("delete_existing_habit")
    \/ /\ session
       /\ get_habit_by_id(habits, habit_id) = {}
       /\ Respond("delete_existing_habit", 404)
       /\ UNCHANGED <<habits, logs, cache, session>>
    \/ /\ session
       /\ get_habit_by_id(habits, habit_id) # {}
       /\ delete_habit(habit_id)
       /\ cache' = invalidate_dashboard_cache(cache)
       /\ Respond("delete_existing_habit", 200)
       /\ UNCHANGED session

(* POST /api/habits/reorder *)
reorder_habits_endpoint(habit_ids) ==
    \/ Unauthorized("reorder_habits_endpoint")
    \/ /\ session
       /\ reorder_habits(habit_ids)
       /\ cache' = invalidate_dashboard_cache(cache)
       /\ response' = Response("reorder_habits_endpoint", 200,
                               reorder_count(habits, habit_ids, 1), 0)
       /\ UNCHANGED session

(* A cached public GET: the cached value when get_cached returns one that   *)
(* is true in `if cached_data:`, else the fresh value, which is cached.     *)
(* nonempty tells whether a cached value is true: the dashboard and heatmap *)
(* dicts always are, the archived list only when it has an item.            *)
cached_get(endpoint, key, fresh, nonempty) ==
    /\ IF cache_hit(cache, key, clock) /\ (nonempty => cache[key].value # <<>>)
       THEN /\ cache' = cache
            /\ response' = Response(endpoint, 200, cache[key].value, 0)
       ELSE /\ cache' = set_cached(cache_after_get(cache, key, clock), key, fresh, clock)
            /\ response' = Response(endpoint, 200, fresh, 0)
    /\ UNCHANGED <<habits, logs, session>>

(* GET /api/dashboard/data *)
dashboard_data ==
    cached_get("dashboard_data", "public_dashboard_json",
               get_public_dashboard_data(habits, logs, DashboardDays), FALSE)

(* the years the route accepts: 2000 <= year <= current_year + 10 *)
MinYear == 2000
YearsAhead == 10

(* GET /api/dashboard/heatmap?year=...; year = NULL is no parameter *)
heatmap_data(year) ==
    IF year # NULL /\ (year < MinYear \/ year > CurrentYear + YearsAhead)
    THEN /\ Respond("heatmap_data", 400)
         /\ UNCHANGED <<habits, logs, cache, session>>
    ELSE cached_get("heatmap_data", heatmap_key(year),
                    get_yearly_heatmap_data(habits, logs, year), FALSE)

(* GET /api/dashboard/archived *)
archived_habits ==
    cached_get("archived_habits", "archived_habits_data",
               get_archived_habits_data(habits, logs), TRUE)

(* the password comparison left out *)
login_any_password(password_ok) ==
    /\ session' = TRUE
    /\ Respond("login", IF session \/ password_ok THEN 302 ELSE 200)
    /\ UNCHANGED <<habits, logs, cache>>

(* routes/auth.py POST /login with the right or a wrong password; a client  *)
(* that is logged in already is redirected by already_logged_in             *)
login(password_ok) ==
    /\ session' = (session \/ password_ok)
    /\ Respond("login", IF session \/ password_ok THEN 302 ELSE 200)
    /\ UNCHANGED <<habits, logs, cache>>

(* GET /logout: session.clear() *)
logout ==
    /\ session' = FALSE
    /\ Respond("logout", 302)
    /\ UNCHANGED <<habits, logs, cache>>

(* habits ever created through the routes, items of one save request *)
MaxWebHabits == 1
MaxWebEntries == 1

(* the items of a save request: distinct habits, each with a status and     *)
(* with or without a value                                                  *)
RequestLogs ==
    UNION {{[k \in 1..Len(q) |-> [habit_id |-> q[k], status |-> e[k][1], value |-> e[k][2]]] :
                e \in [1..Len(q) -> BOOLEAN \X ({NULL} \cup Values)]} :
           q \in DistinctSeqs(HabitIds, MaxWebEntries)}

NextWeb ==
    \/ \E d \in {Today, NULL}, rl \in RequestLogs :
          save_tracking(d, rl) /\ UNCHANGED <<clock, last, inflight, written>>
    \/ /\ Cardinality(DOMAIN habits) < MaxWebHabits
       /\ \E p \in BOOLEAN : create_new_habit(p) /\ UNCHANGED <<clock, last, inflight, written>>
    \/ \E h \in HabitIds, kw \in Kwargs :
          update_existing_habit(h, kw) /\ UNCHANGED <<clock, last, inflight, written>>
    \/ \E h \in HabitIds : delete_existing_habit(h) /\ UNCHANGED <<clock, last, inflight, written>>
    \/ \E q \in DistinctSeqs(HabitIds, MaxHabits) :
          reorder_habits_endpoint(q) /\ UNCHANGED <<clock, last, inflight, written>>
    \/ dashboard_data /\ UNCHANGED <<clock, last, inflight, written>>
    \/ \E y \in {NULL, CurrentYear, MinYear - 1} :
          heatmap_data(y) /\ UNCHANGED <<clock, last, inflight, written>>
    \/ archived_habits /\ UNCHANGED <<clock, last, inflight, written>>
    \/ \E ok \in BOOLEAN : login(ok) /\ UNCHANGED <<clock, last, inflight, written>>
    \/ logout /\ UNCHANGED <<clock, last, inflight, written>>
    \/ \E e \in {"track", "settings"} :
          admin_page(e) /\ UNCHANGED <<clock, last, inflight, written>>
    \/ \E d \in {Today, NULL} : track_data(d) /\ UNCHANGED <<clock, last, inflight, written>>
    \/ get_habits /\ UNCHANGED <<clock, last, inflight, written>>

SpecWeb == Init /\ [][NextWeb]_vars

-----------------------------------------------------------------------------
(* SpecAuth: every admin route, with and without a session, between logins, *)
(* logouts and reads of the public dashboard                                *)

(* save requests of one item without a value *)
AuthRequestLogs ==
    {<<[habit_id |-> h, status |-> TRUE, value |-> NULL]>> : h \in HabitIds}

NextAuth ==
    \/ \E ok \in BOOLEAN : login(ok) /\ UNCHANGED <<clock, last, inflight, written>>
    \/ logout /\ UNCHANGED <<clock, last, inflight, written>>
    \/ \E e \in {"track", "settings"} :
          admin_page(e) /\ UNCHANGED <<clock, last, inflight, written>>
    \/ \E d \in {Today, NULL} : track_data(d) /\ UNCHANGED <<clock, last, inflight, written>>
    \/ get_habits /\ UNCHANGED <<clock, last, inflight, written>>
    \/ \E d \in {Today, NULL}, rl \in AuthRequestLogs :
          save_tracking(d, rl) /\ UNCHANGED <<clock, last, inflight, written>>
    \/ /\ Cardinality(DOMAIN habits) < MaxWebHabits
       /\ \E p \in BOOLEAN : create_new_habit(p) /\ UNCHANGED <<clock, last, inflight, written>>
    \/ \E h \in HabitIds, kw \in Kwargs :
          update_existing_habit(h, kw) /\ UNCHANGED <<clock, last, inflight, written>>
    \/ \E h \in HabitIds : delete_existing_habit(h) /\ UNCHANGED <<clock, last, inflight, written>>
    \/ \E q \in DistinctSeqs(HabitIds, MaxWebHabits) :
          reorder_habits_endpoint(q) /\ UNCHANGED <<clock, last, inflight, written>>
    \/ dashboard_data /\ UNCHANGED <<clock, last, inflight, written>>

SpecAuth == Init /\ [][NextAuth]_vars

-----------------------------------------------------------------------------
(* SpecFailedSave: save requests of up to two items, of a habit that is    *)
(* stored and of one that is not, between dashboard reads                  *)

FailedSaveEntries == 2  \* items of one save request

(* items without a value, of distinct habits *)
PlainRequestLogs ==
    UNION {{[k \in 1..Len(q) |-> [habit_id |-> q[k], status |-> e[k], value |-> NULL]] :
                e \in [1..Len(q) -> BOOLEAN]} :
           q \in DistinctSeqs(HabitIds, FailedSaveEntries)}

NextFailedSave ==
    \/ /\ Cardinality(DOMAIN habits) < MaxWebHabits
       /\ create_new_habit(TRUE) /\ UNCHANGED <<clock, last, inflight, written>>
    \/ \E ok \in BOOLEAN : login(ok) /\ UNCHANGED <<clock, last, inflight, written>>
    \/ \E rl \in PlainRequestLogs :
          save_tracking(Today, rl) /\ UNCHANGED <<clock, last, inflight, written>>
    \/ dashboard_data /\ UNCHANGED <<clock, last, inflight, written>>

SpecFailedSave == Init /\ [][NextFailedSave]_vars

-----------------------------------------------------------------------------
(* SpecRace: a dashboard request and a save request served by two threads   *)
(* of the server (app.run starts the threaded development server), each     *)
(* advancing one call at a time.  Every other request is served alone.      *)

AllIdle == inflight.reader = "idle" /\ inflight.writer = "idle"

(* dashboard_data, thread 1: get_cached('public_dashboard_json') *)
ReaderGetCached ==
    /\ inflight.reader = "idle"
    /\ IF cache_hit(cache, "public_dashboard_json", clock)
       THEN /\ response' = Response("dashboard_data", 200,
                                    cache["public_dashboard_json"].value, 0)
            /\ cache' = cache
            /\ inflight' = [inflight EXCEPT !.overlapped = inflight.writer # "idle"]
       ELSE /\ cache' = cache_after_get(cache, "public_dashboard_json", clock)
            /\ inflight' = [inflight EXCEPT !.reader = "computing",
                                            !.overlapped = inflight.writer # "idle"]
            /\ UNCHANGED response
    /\ UNCHANGED <<habits, logs, clock, session, last, written>>

(* dashboard = get_public_dashboard_data(days=30) *)
ReaderCompute ==
    /\ inflight.reader = "computing"
    /\ inflight' = [inflight EXCEPT
           !.reader = "caching",
           !.dashboard = get_public_dashboard_data(habits, logs, DashboardDays)]
    /\ UNCHANGED <<habits, logs, cache, clock, session, response, last, written>>

(* set_cached('public_dashboard_json', dashboard); return jsonify(dashboard) *)
ReaderSetCached ==
    /\ inflight.reader = "caching"
    /\ cache' = set_cached(cache, "public_dashboard_json", inflight.dashboard, clock)
    /\ response' = Response("dashboard_data", 200, inflight.dashboard, 0)
    /\ inflight' = [inflight EXCEPT !.reader = "idle", !.dashboard = 0]
    /\ UNCHANGED <<habits, logs, clock, session, last, written>>

(* save_tracking, thread 2, up to and including save_day_logs *)
WriterSave(date, req_logs) ==
    /\ inflight.writer = "idle"
    /\ session
    /\ save_day_logs(date, to_habit_statuses(req_logs))
    /\ LET r == save_loop(habits, logs, date, to_habit_statuses(req_logs), 1)
       IN  IF r.raised
           THEN /\ response' = Response("save_tracking", 500, 0,
                                        [date |-> date, logs |-> req_logs])
                /\ inflight' = [inflight EXCEPT
                       !.overlapped = inflight.overlapped \/ inflight.reader # "idle"]
           ELSE /\ response' = response
                /\ inflight' = [inflight EXCEPT
                       !.writer = "invalidating",
                       !.saved = [count |-> r.count, date |-> date, logs |-> req_logs],
                       !.overlapped = inflight.overlapped \/ inflight.reader # "idle"]
    /\ UNCHANGED <<cache, clock, session, last, written>>

(* invalidate_dashboard_cache(); return jsonify({'success': True, ...}) *)
WriterInvalidate ==
    /\ inflight.writer = "invalidating"
    /\ cache' = invalidate_dashboard_cache(cache)
    /\ response' = Response("save_tracking", 200, inflight.saved.count,
                            [date |-> inflight.saved.date, logs |-> inflight.saved.logs])
    /\ inflight' = [inflight EXCEPT !.writer = "idle", !.saved = 0]
    /\ UNCHANGED <<habits, logs, clock, session, last, written>>

(* time.time() moves on, by the cache duration each time *)
MaxTicks == 2
Tick ==
    /\ clock < MaxTicks * CACHE_DURATION
    /\ clock' = clock + CACHE_DURATION
    /\ UNCHANGED <<habits, logs, cache, session, response, inflight, last, written>>

NextRace ==
    \/ ReaderGetCached
    \/ ReaderCompute
    \/ ReaderSetCached
    \/ \E rl \in RequestLogs : WriterSave(Today, rl)
    \/ WriterInvalidate
    \/ /\ AllIdle
       /\ Cardinality(DOMAIN habits) < MaxWebHabits
       /\ \E p \in BOOLEAN : create_new_habit(p) /\ UNCHANGED <<clock, last, inflight, written>>
    \/ /\ AllIdle
       /\ \E ok \in BOOLEAN : login(ok) /\ UNCHANGED <<clock, last, inflight, written>>
    \/ Tick

SpecRace == Init /\ [][NextRace]_vars

-----------------------------------------------------------------------------
(* Claims *)

ActivePublic(H) == {h \in DOMAIN H : H[h].is_active = 1 /\ H[h].is_public = 1}

(* C1: whatever create_habit, update_habit, delete_habit, reorder_habits,  *)
(* upsert_log and save_day_logs did before, get_public_dashboard_data      *)
(* returns exactly the habits that are active and public at call time,     *)
(* each once, and every log it lists under a habit is a row of that habit. *)
C1_PublicDashboardIsActivePublic ==
    LET out == get_public_dashboard_data(habits, logs, DashboardDays).habits
    IN  /\ {out[k].id : k \in 1..Len(out)} = ActivePublic(habits)
        /\ Len(out) = Cardinality(ActivePublic(habits))
        /\ \A k \in 1..Len(out) : \A j \in 1..Len(out[k].logs) :
              \E r \in BagToSet(logs) :
                  /\ r.habit_id = out[k].id
                  /\ r.date = out[k].logs[j].date
                  /\ (r.status = 1) = out[k].logs[j].status

(* a public active habit with a log is shown while a private, soft-deleted *)
(* habit that has a log too is not                                         *)
C1_Witness ==
    \E a, b \in DOMAIN habits :
        /\ a \in ActivePublic(habits) /\ rows_of(logs, a, Today) # {}
        /\ habits[b].is_public = 0 /\ habits[b].is_active = 0
        /\ rows_of(logs, b, Today) # {}
        /\ Len(get_public_dashboard_data(habits, logs, DashboardDays).habits) = 1

(* the habits a heatmap value counts on some day of its year *)
counted_habits(heatmap) ==
    {h \in DOMAIN heatmap.habit_created_dates :
        \E m \in 1..Len(heatmap.months) : \E d \in 1..Len(heatmap.months[m].days) :
            heatmap.habit_created_dates[h] <= heatmap.months[m].days[d].date}

(* C2: a heatmap response, served from the cache or computed, counts only   *)
(* habits that are public when it is sent; in particular none that an       *)
(* update has set is_public false on before.                                *)
C2_HeatmapCountsOnlyPublic ==
    (response.endpoint = "heatmap_data" /\ response.status = 200) =>
        \A h \in counted_habits(response.body) :
            h \in DOMAIN habits /\ habits[h].is_public = 1

WriteEndpoints == {"save_tracking", "create_new_habit", "update_existing_habit",
                   "delete_existing_habit", "reorder_habits_endpoint"}

MemoKeys == {"public_dashboard_json", heatmap_key(NULL), heatmap_key(CurrentYear),
             "archived_habits_data"}

(* C3: when a write through an admin endpoint has returned success, none of *)
(* the keys of the memoized outputs (dashboard, each yearly heatmap,        *)
(* archived habits) holds a value that get_cached would still return.       *)
C3_WriteInvalidatesEveryMemo ==
    (response.endpoint \in WriteEndpoints /\ response.status \in {200, 201}) =>
        \A k \in MemoKeys : ~cache_hit(cache, k, clock)

(* C4: the dashboard response that follows a successful save shows, for     *)
(* every item of the save whose habit is active and public, a log of the    *)
(* saved date with the saved status.                                        *)
C4_DashboardReflectsSave ==
    [][(/\ response.endpoint = "save_tracking"
        /\ response.status = 200
        /\ response'.endpoint = "dashboard_data")
       => \A k \in 1..Len(response.request.logs) :
              LET item == response.request.logs[k]
                  shown == response'.body.habits
              IN  item.habit_id \in ActivePublic(habits') =>
                      \E i \in 1..Len(shown) :
                          /\ shown[i].id = item.habit_id
                          /\ \E j \in 1..Len(shown[i].logs) :
                                 /\ shown[i].logs[j].date = response.request.date
                                 /\ shown[i].logs[j].status = item.status]_vars

(* C5: a dashboard request that starts after a save has returned success,  *)
(* and that no write overlaps, is answered with the dashboard of the store  *)
(* as the save left it, whatever dashboard requests were in flight during   *)
(* the save.                                                                *)
C5_NoStaleReadWinsRace ==
    (/\ response.endpoint = "dashboard_data"
     /\ AllIdle
     /\ ~inflight.overlapped)
    => response.body = get_public_dashboard_data(habits, logs, DashboardDays)

(* C6: in every reachable state of the log store there is at most one row  *)
(* per (habit_id, date).                                                   *)
C6_OneLogPerHabitDate ==
    \A r \in BagToSet(logs) : count_rows(logs, r.habit_id, r.date) = 1

(* an upsert_log on a (habit, date) that already had a row *)
C6_Witness ==
    /\ last.op = "upsert_log" /\ ~last.raised /\ last.existed
    /\ count_rows(logs, last.habit_id, last.date) = 1

(* C7: upsert_log(h, d, s) that does not raise leaves exactly one row for  *)
(* (h, d), with status s whatever it was before, and changes no row of     *)
(* another habit or date and no habit.                                     *)
C7_UpsertLastWriteWinsLocal ==
    [][\A h \in HabitIds, d \in LogDates, s \in BOOLEAN :
          (UpsertLogCall(h, d, s) /\ ~last'.raised) =>
              /\ count_rows(logs', h, d) = 1
              /\ \A r \in rows_of(logs', h, d) : r.status = bool_int(s)
              /\ \A r \in BagToSet(logs) \cup BagToSet(logs') :
                    ~(r.habit_id = h /\ r.date = d) =>
                        CopiesIn(r, logs') = CopiesIn(r, logs)
              /\ habits' = habits]_vars

(* status False written over a row that existed, next to rows of another   *)
(* habit or date                                                           *)
C7_Witness ==
    /\ last.op = "upsert_log" /\ ~last.raised /\ last.existed
    /\ \A r \in rows_of(logs, last.habit_id, last.date) : r.status = 0
    /\ \E r \in BagToSet(logs) : r.habit_id # last.habit_id
    /\ \E r \in BagToSet(logs) : r.date # last.date

(* C8: save_day_logs that returns stores, for every entry of the form      *)
(* {status, value}, a row with the entry's status and the entry's value.   *)
C8_SaveStoresStatusAndValue ==
    [][\A hs \in HabitStatuses :
          (SaveDayLogsCall(Today, hs) /\ ~last'.raised) =>
              \A k \in 1..Len(hs) :
                  hs[k].status.form = "dict" =>
                      \E r \in rows_of(logs', hs[k].habit_id, Today) :
                          /\ r.status = bool_int(hs[k].status.status)
                          /\ r.value = hs[k].status.value]_vars

(* C9: save_day_logs returns a count only when every entry was upserted:   *)
(* the count is then the number of entries, each entry's (habit, date) has *)
(* its row, and no other row changed; it raises exactly when the upsert of *)
(* some entry fails.                                                       *)
C9_SaveReturnsCountOrRaises ==
    [][last'.op = "save_day_logs" =>
          LET keys == last'.keys
              d == last'.date
          IN  /\ last'.raised <=> \E k \in 1..Len(keys) : ~foreign_key_ok(habits, keys[k])
              /\ ~last'.raised =>
                    /\ last'.ret = Len(keys)
                    /\ \A k \in 1..Len(keys) : count_rows(logs', keys[k], d) = 1
                    /\ \A r \in BagToSet(logs) \cup BagToSet(logs') :
                          ~(r.date = d /\ \E k \in 1..Len(keys) : keys[k] = r.habit_id) =>
                              CopiesIn(r, logs') = CopiesIn(r, logs)]_vars

(* a call that raised on its second entry, after the first was upserted *)
C9_Witness ==
    /\ last.op = "save_day_logs" /\ last.raised /\ last.done = 1
    /\ \E r \in BagToSet(logs) : r.date = last.date
    /\ \E r \in BagToSet(logs) : r.date # last.date

(* C10: current_streak is the length of the run of consecutive completed   *)
(* days that ends today, or yesterday when today is not completed, and 0   *)
(* when neither is completed.                                              *)
completed_on(L, h, d) == \E r \in BagToSet(L) : r.habit_id = h /\ r.date = d /\ r.status = 1

run_ending(L, h, d) ==
    CHOOSE n \in 0..(StreakDays + 2) :
        /\ \A i \in 0..(n - 1) : completed_on(L, h, d - i)
        /\ ~completed_on(L, h, d - n)

C10_CurrentStreakIsRun ==
    last.op = "get_habit_streak" =>
        last.ret = IF completed_on(logs, last.habit_id, Today)
                   THEN run_ending(logs, last.habit_id, Today)
                   ELSE IF completed_on(logs, last.habit_id, Today - 1)
                        THEN run_ending(logs, last.habit_id, Today - 1)
                        ELSE 0

(* today and yesterday completed, the day before logged as missed, an      *)
(* older and a future completion on file: the streak is 2                  *)
C10_Witness ==
    /\ last.op = "get_habit_streak" /\ last.ret = 2
    /\ completed_on(logs, 1, Today) /\ completed_on(logs, 1, Today - 1)
    /\ LogRow(1, Today - 2, 0, NULL) \in BagToSet(logs)
    /\ completed_on(logs, 1, Today - 3)
    /\ completed_on(logs, 1, Today + 1)

(* C11: get_habit_streak returns current_streak 0 and last_completed_date  *)
(* None whenever the habit has no completed log dated today or earlier: no *)
(* log at all, only logs with status false, or only future completions.    *)
C11_NoPastCompletionNoStreak ==
    (/\ last.op = "get_habit_streak"
     /\ ~\E r \in BagToSet(logs) :
            r.habit_id = last.habit_id /\ r.status = 1 /\ r.date <= Today)
    => (last.ret = 0 /\ last.date = NULL)

(* two future completions and today logged as missed: still {0, None} *)
C11_Witness ==
    /\ last.op = "get_habit_streak" /\ last.ret = 0 /\ last.date = NULL
    /\ completed_on(logs, last.habit_id, Today + 1)
    /\ completed_on(logs, last.habit_id, Today + 2)
    /\ LogRow(last.habit_id, Today, 0, NULL) \in BagToSet(logs)

(* the days of the window [today - n + 1, today] *)
window(n) == (Today - n + 1)..Today

(* the completed logs of a habit dated in the window *)
completed_in_window(L, h, n) ==
    {r \in BagToSet(L) : r.habit_id = h /\ r.status = 1 /\ r.date \in window(n)}

(* C12 as stated: get_completion_stats(h, n) with n > 0 reports total_days  *)
(* n and completed_days the number of completed logs of h dated in the      *)
(* window, and its completion_rate is 100.0 exactly when every day of the   *)
(* window is completed and 0.0 exactly when none is.                        *)
C12_StatsExactEnds ==
    (last.op = "get_completion_stats" /\ last.days > 0) =>
        LET n == last.days
            h == last.habit_id
        IN  /\ last.ret.total_days = n
            /\ last.ret.completed_days = Cardinality(completed_in_window(logs, h, n))
            /\ last.ret.completion_rate = 1000
                   <=> \A d \in window(n) : completed_on(logs, h, d)
            /\ last.ret.completion_rate = 0
                   <=> \A d \in window(n) : ~completed_on(logs, h, d)

(* C12, amended: total_days and completed_days as stated; completion_rate   *)
(* is 100.0 when every day of the window is completed and 0.0 when none is, *)
(* and in no other case when the window is shorter than 2000 days.          *)
C12_StatsEndsUpToRounding ==
    (last.op = "get_completion_stats" /\ last.days > 0) =>
        LET n == last.days
            h == last.habit_id
        IN  /\ last.ret.total_days = n
            /\ last.ret.completed_days = Cardinality(completed_in_window(logs, h, n))
            /\ (\A d \in window(n) : completed_on(logs, h, d))
                   => last.ret.completion_rate = 1000
            /\ (\A d \in window(n) : ~completed_on(logs, h, d))
                   => last.ret.completion_rate = 0
            /\ n < 2000 =>
                   /\ last.ret.completion_rate = 1000
                          => \A d \in window(n) : completed_on(logs, h, d)
                   /\ last.ret.completion_rate = 0
                          => \A d \in window(n) : ~completed_on(logs, h, d)

(* a window of 3 days with today completed and yesterday missed, beside a   *)
(* completion before the window and one in the future: 1 of 3               *)
C12_Witness ==
    /\ last.op = "get_completion_stats" /\ last.days = 3
    /\ last.ret.completed_days = 1 /\ last.ret.completion_rate = 333
    /\ completed_on(logs, 1, Today)
    /\ LogRow(1, Today - 1, 0, NULL) \in BagToSet(logs)
    /\ completed_on(logs, 1, Today - 3)
    /\ completed_on(logs, 1, Today + 1)

(* C13: get_completion_stats and get_public_dashboard_data called with     *)
(* days <= 0 end in an error and return no statistics.                      *)
C13_NonPositiveWindowIsError ==
    (last.op \in {"get_completion_stats", "get_public_dashboard_data"} /\ last.days <= 0)
        => last.raised

(* the year a heatmap call is about, its last day, and its days as the      *)
(* result lists them                                                       *)
year_of(call) == IF call.year = NULL THEN CurrentYear ELSE call.year

year_end(year) == date_of(year, MonthsPerYear, DaysPerMonth)

days_of(heatmap) ==
    {heatmap.months[m].days[d] :
        m \in 1..Len(heatmap.months), d \in 1..DaysPerMonth}

(* the public habits created by the end of the year *)
qualifying(H, year) ==
    {h \in DOMAIN H : H[h].is_public = 1 /\ H[h].created_at <= year_end(year)}

(* the earliest log date of a habit, whatever the status and the year, or   *)
(* its created_at date when it has no log                                   *)
start_of(H, L, h) ==
    LET dates == {r.date : r \in {x \in BagToSet(L) : x.habit_id = h}}
    IN  IF dates = {} THEN H[h].created_at
        ELSE CHOOSE d \in dates : \A e \in dates : d <= e

(* the qualifying habits counted on a date *)
counted_on(H, L, year, date) ==
    {h \in qualifying(H, year) : start_of(H, L, h) <= date}

habits_without(H, h) == [i \in DOMAIN H \ {h} |-> H[i]]

logs_without(L, h) == [r \in {x \in BagToSet(L) : x.habit_id # h} |-> L[r]]

(* C15: a public habit created after the last day of the requested year is  *)
(* wholly excluded from that year's heatmap: the result is the one the      *)
(* store gives without the habit and its logs, so it adds to no total_count *)
(* and no completed_count, backdated logs of that year or not.              *)
C15_LaterHabitExcluded ==
    last.op = "get_yearly_heatmap_data" =>
        \A h \in DOMAIN habits :
            (habits[h].is_public = 1 /\ habits[h].created_at > year_end(year_of(last))) =>
                last.ret = get_yearly_heatmap_data(habits_without(habits, h),
                                                   logs_without(logs, h), last.year)

(* last year's heatmap with a habit of that year and a public habit created *)
(* today that has a completed log on a day of last year: that day counts 1  *)
(* habit and 0 completions                                                  *)
C15_Witness ==
    /\ last.op = "get_yearly_heatmap_data" /\ last.year = CurrentYear - 1
    /\ \E a, b \in DOMAIN habits :
          /\ habits[a].is_public = 1 /\ habits[a].created_at = Today - DaysPerYear
          /\ habits[b].is_public = 1 /\ habits[b].created_at = Today
          /\ completed_on(logs, b, Today - DaysPerYear)
          /\ \E x \in days_of(last.ret) :
                x.date = Today - DaysPerYear /\ x.total_count = 1 /\ x.completed_count = 0

(* p tenths of a percent is num / den * 100 rounded to one decimal *)
nearest_tenth(p, num, den) ==
    LET diff == p * den - 1000 * num
    IN  2 * (IF diff < 0 THEN -diff ELSE diff) <= den

(* C16: on every day of the heatmap with total_count > 0, completed_count   *)
(* is the number of habits counted that day that have a completed log      *)
(* dated that day, and completion_percentage is completed_count /           *)
(* total_count * 100 to one decimal; a day with total_count 0 reports       *)
(* completed_count 0 and percentage 0.                                      *)
C16_CompletedCountAndPercentage ==
    last.op = "get_yearly_heatmap_data" =>
        \A day \in days_of(last.ret) :
            IF day.total_count > 0
            THEN /\ day.completed_count =
                        Cardinality({h \in counted_on(habits, logs, year_of(last), day.date) :
                                        completed_on(logs, h, day.date)})
                 /\ nearest_tenth(day.completion_percentage,
                                  day.completed_count, day.total_count)
            ELSE day.completed_count = 0 /\ day.completion_percentage = 0

(* a day on which one of two counted habits is completed and the other is   *)
(* logged as missed: 1 of 2, 50.0                                           *)
C16_Witness ==
    /\ last.op = "get_yearly_heatmap_data"
    /\ \E day \in days_of(last.ret) : \E a, b \in DOMAIN habits :
          /\ day.total_count = 2 /\ day.completed_count = 1
          /\ day.completion_percentage = 500
          /\ completed_on(logs, a, day.date)
          /\ LogRow(b, day.date, 0, NULL) \in BagToSet(logs)

(* C17: the heatmap of a year with no qualifying public habit (none public, *)
(* or every public one created after the year's end) has months = [],       *)
(* best_day = None, worst_day = None and total_days_tracked = 0.            *)
C17_NoQualifyingHabitEmptyHeatmap ==
    (last.op = "get_yearly_heatmap_data" /\ qualifying(habits, year_of(last)) = {}) =>
        /\ last.ret.months = <<>>
        /\ last.ret.overall_stats.best_day = <<>>
        /\ last.ret.overall_stats.worst_day = <<>>
        /\ last.ret.overall_stats.total_days_tracked = 0

(* last year's heatmap of a store whose only public habit was created       *)
(* today and has a completed log dated last year, beside a private habit    *)
C17_Witness ==
    /\ last.op = "get_yearly_heatmap_data" /\ last.year = CurrentYear - 1
    /\ last.ret.months = <<>>
    /\ \E a, b \in DOMAIN habits :
          /\ habits[a].is_public = 1 /\ habits[a].created_at = Today
          /\ completed_on(logs, a, Today - DaysPerYear)
          /\ habits[b].is_public = 0

(* the days of a heatmap with total_count > 0 *)
tracked_days(heatmap) == {day \in days_of(heatmap) : day.total_count > 0}

(* the earliest of the days that no day of the set beats: better(x, y)      *)
(* says that x beats y                                                      *)
earliest_extreme(days, better(_, _)) ==
    CHOOSE day \in days :
        /\ \A other \in days : ~better(other, day)
        /\ \A other \in days : (~better(day, other) /\ other # day) => day.date < other.date

(* C18: the overall statistics of a heatmap are taken over the days with    *)
(* total_count > 0 only: total_days_tracked is their number, best_day is    *)
(* the earliest of them with the highest completion percentage, worst_day   *)
(* the earliest with the lowest, and both are None when there is none.      *)
C18_OverallStatsOverTrackedDays ==
    last.op = "get_yearly_heatmap_data" =>
        LET tracked == tracked_days(last.ret)
            stats == last.ret.overall_stats
            best == earliest_extreme(tracked,
                        LAMBDA x, y : x.completion_percentage > y.completion_percentage)
            worst == earliest_extreme(tracked,
                        LAMBDA x, y : x.completion_percentage < y.completion_percentage)
        IN  /\ stats.total_days_tracked = Cardinality(tracked)
            /\ IF tracked = {}
               THEN stats.best_day = <<>> /\ stats.worst_day = <<>>
               ELSE /\ stats.best_day =
                          <<[date |-> best.date, percentage |-> best.completion_percentage]>>
                    /\ stats.worst_day =
                          <<[date |-> worst.date, percentage |-> worst.completion_percentage]>>

(* this year: nothing counted yesterday, today 0 of 1, tomorrow 1 of 2, the *)
(* day after 0 of 2: best is tomorrow, worst is today, the first of the two *)
(* days at 0.0, and not yesterday                                           *)
C18_Witness ==
    /\ last.op = "get_yearly_heatmap_data" /\ last.year = NULL
    /\ last.ret.overall_stats.best_day = <<[date |-> Today + 1, percentage |-> 500]>>
    /\ last.ret.overall_stats.worst_day = <<[date |-> Today, percentage |-> 0]>>
    /\ \E x, y \in days_of(last.ret) :
          /\ x.date = Today - 1 /\ x.total_count = 0
          /\ y.date = Today + 2 /\ y.total_count = 2 /\ y.completion_percentage = 0

(* C19: get_admin_tracking_data(date) lists every active habit, public or  *)
(* private, once and no inactive one, in order_index order; a habit with a  *)
(* log on the date is reported is_logged with the stored status and value,  *)
(* any other habit is_logged false, status false, value null, whatever logs *)
(* it has on other dates.                                                   *)
C19_TrackingListsActiveWithLogOfDate ==
    last.op = "get_admin_tracking_data" =>
        LET out == last.ret.habits IN
        /\ {out[k].id : k \in 1..Len(out)} = {h \in DOMAIN habits : habits[h].is_active = 1}
        /\ Len(out) = Cardinality({h \in DOMAIN habits : habits[h].is_active = 1})
        /\ \A k, j \in 1..Len(out) :
               k < j => habits[out[k].id].order_index <= habits[out[j].id].order_index
        /\ \A k \in 1..Len(out) :
               IF rows_of(logs, out[k].id, last.date) # {}
               THEN /\ out[k].is_logged
                    /\ \A r \in rows_of(logs, out[k].id, last.date) :
                           out[k].status = (r.status = 1) /\ out[k].value = r.value
               ELSE ~out[k].is_logged /\ ~out[k].status /\ out[k].value = NULL

(* two active habits, one of them private, listed against their id order:   *)
(* the first completed on the date, the second with a log of the other date *)
(* only                                                                     *)
C19_Witness ==
    /\ last.op = "get_admin_tracking_data"
    /\ Len(last.ret.habits) = 2
    /\ last.ret.habits[1].id > last.ret.habits[2].id
    /\ \E k \in 1..2 : ~last.ret.habits[k].is_public
    /\ last.ret.habits[1].is_logged /\ last.ret.habits[1].status
    /\ ~last.ret.habits[2].is_logged
    /\ \E r \in BagToSet(logs) :
          r.habit_id = last.ret.habits[2].id /\ r.date # last.date

(* C20: get_archived_habits_data returns exactly the habits that are        *)
(* inactive and public and have a log, each once; so no active and no       *)
(* private habit is in it, an archived public habit without a log is left   *)
(* out, and no habit is both in the public dashboard and in the archived    *)
(* view of one store.                                                       *)
C20_ArchivedIsInactivePublicWithLogs ==
    LET out == get_archived_habits_data(habits, logs)
        archived == {out[k].id : k \in 1..Len(out)}
        shown == get_public_dashboard_data(habits, logs, DashboardDays).habits
        expected == {h \in DOMAIN habits :
                        /\ habits[h].is_active = 0
                        /\ habits[h].is_public = 1
                        /\ \E r \in BagToSet(logs) : r.habit_id = h}
    IN  /\ archived = expected
        /\ Len(out) = Cardinality(expected)
        /\ archived \cap {shown[k].id : k \in 1..Len(shown)} = {}

(* two soft-deleted public habits, one with a log and one without: only the *)
(* first is in the archived view                                            *)
C20_Witness ==
    /\ Len(get_archived_habits_data(habits, logs)) = 1
    /\ \E a, b \in DOMAIN habits :
          /\ a # b
          /\ habits[a].is_active = 0 /\ habits[a].is_public = 1
          /\ habits[b].is_active = 0 /\ habits[b].is_public = 1
          /\ get_archived_habits_data(habits, logs)[1].id = a
          /\ ~\E r \in BagToSet(logs) : r.habit_id = b

(* n consecutive days from d on, each with a completed log of h *)
run_from(L, h, d, n) == \A i \in 0..(n - 1) : completed_on(L, h, d + i)

(* the length of the longest run of consecutive completed days of h *)
max_run(L, h) ==
    LET dates == {r.date : r \in {x \in BagToSet(L) : x.habit_id = h}}
    IN  CHOOSE n \in 0..Cardinality(dates) :
            /\ n > 0 => \E d \in dates : run_from(L, h, d, n)
            /\ ~\E d \in dates : run_from(L, h, d, n + 1)

(* C21: for every log history of an archived public habit the reported     *)
(* longest_streak is the length of the longest run of consecutive calendar  *)
(* days that each have a completed log; a missed or an unlogged day ends a  *)
(* run.                                                                     *)
C21_LongestStreakIsMaxRun ==
    last.op = "get_archived_habits_data" =>
        \A k \in 1..Len(last.ret) :
            last.ret[k].longest_streak = max_run(logs, last.ret[k].id)

(* completed on days 1, 2, 3, missed on day 4, completed on day 5: 3 *)
C21_Witness ==
    /\ last.op = "get_archived_habits_data"
    /\ Len(last.ret) = 1 /\ last.ret[1].longest_streak = 3
    /\ \A d \in {Today - 4, Today - 3, Today - 2, Today} : completed_on(logs, 1, d)
    /\ LogRow(1, Today - 1, 0, NULL) \in BagToSet(logs)

(* C22: reorder_habits(L) with L a permutation of the ids of all habits     *)
(* leaves get_all_habits(include_private=True) in exactly the order L, each *)
(* habit's order_index its index in L, and changes no other field of any    *)
(* habit and no log.                                                        *)
C22_ReorderGivesListedOrder ==
    [][(/\ last'.op = "reorder_habits"
        /\ Len(last'.keys) = Cardinality(DOMAIN habits)
        /\ {last'.keys[k] : k \in 1..Len(last'.keys)} = DOMAIN habits)
       => /\ get_all_habits(habits', TRUE) = last'.keys
          /\ DOMAIN habits' = DOMAIN habits
          /\ \A k \in 1..Len(last'.keys) :
                habits'[last'.keys[k]] =
                    [habits[last'.keys[k]] EXCEPT !.order_index = k - 1]
          /\ logs' = logs]_vars

(* two habits, one of them soft-deleted and one with a log, put in the      *)
(* order [2, 1]                                                             *)
C22_Witness ==
    /\ last.op = "reorder_habits" /\ last.keys = <<2, 1>>
    /\ DOMAIN habits = {1, 2}
    /\ get_all_habits(habits, TRUE) = <<2, 1>>
    /\ \E h \in DOMAIN habits : habits[h].is_active = 0
    /\ logs # EmptyBag

(* C23: in every state reached by create_habit, reorder_habits with any     *)
(* list of ids, delete_habit and hard_delete_habit, the order_index values  *)
(* of the stored habits are pairwise distinct and are exactly 0..n-1 for n  *)
(* habits.                                                                  *)
C23_OrderIndexContiguous ==
    /\ \A a, b \in DOMAIN habits : a # b => habits[a].order_index # habits[b].order_index
    /\ {habits[h].order_index : h \in DOMAIN habits} = 0..(Cardinality(DOMAIN habits) - 1)

(* C24: delete_habit(h) of a stored habit sets h.is_active to false and     *)
(* changes nothing else: every other field of h, every other habit and      *)
(* every log stay as they were, and get_habit_by_id still returns h.        *)
C24_DeleteHabitIsSoft ==
    [][(last'.op = "delete_habit" /\ last'.habit_id \in DOMAIN habits)
       => /\ habits' = [habits EXCEPT ![last'.habit_id].is_active = 0]
          /\ logs' = logs
          /\ get_habit_by_id(habits', last'.habit_id) = {last'.habit_id}]_vars

(* an active habit with a log soft-deleted beside another active habit with *)
(* a log                                                                    *)
C24_Witness ==
    /\ last.op = "delete_habit" /\ last.ret = 1
    /\ last.habit_id \in DOMAIN habits /\ habits[last.habit_id].is_active = 0
    /\ rows_of(logs, last.habit_id, Today) # {}
    /\ \E o \in DOMAIN habits :
          o # last.habit_id /\ habits[o].is_active = 1 /\ rows_of(logs, o, Today) # {}


(* C25: get_cached(k) returns the value of the most recent set of k while  *)
(* k was not invalidated and the cache not cleared since and no more than  *)
(* its duration has elapsed since that set, and None otherwise; an expired *)
(* entry stays in the map while time passes (no sweep) and is removed by   *)
(* the get that finds it expired.                                          *)
written_value(key, now) ==
    IF key \in DOMAIN written /\ written[key].live
          /\ now - written[key].at <= written[key].ttl
    THEN written[key].value
    ELSE NULL

C25_GetReturnsLiveSet ==
    [][/\ last'.op = "get_cached" =>
            /\ last'.ret = written_value(last'.key, clock)
            /\ (last'.ret = NULL => last'.key \notin DOMAIN cache')
            /\ (last'.ret # NULL => cache' = cache)
       /\ last'.op = "tick" => cache' = cache]_vars

C25_Witness ==
    /\ last.op = "get_cached"
    /\ last.ret = NULL
    /\ last.key \in DOMAIN written
    /\ written[last.key].live
    /\ written[last.key].ttl = ShortDuration
    /\ clock - written[last.key].at = ShortDuration + 1

C25_WitnessHit ==
    /\ last.op = "get_cached"
    /\ last.ret # NULL
    /\ clock - written[last.key].at = written[last.key].ttl

(* C26: after set_cached('dashboard_data', v) and then                     *)
(* invalidate_dashboard_cache(), get_cached('dashboard_data') returns None *)
C26_DashboardDataInvalidated ==
    [][last'.op = "invalidate_dashboard_cache"
         => cache_get(cache', "dashboard_data", clock') = NULL]_vars


(* C27: an admin endpoint requested without an authenticated session is    *)
(* answered with 401 or with a redirect and leaves habits, logs, cache and  *)
(* the session as they were; habits and logs change only in a step of an    *)
(* authenticated session; the session becomes authenticated only by a login *)
(* with the correct password (the one answered with the redirect of the     *)
(* successful login) and is unauthenticated after logout.                   *)
AdminEndpoints ==
    {"track", "settings", "track_data", "get_habits", "save_tracking",
     "create_new_habit", "update_existing_habit", "delete_existing_habit",
     "reorder_habits_endpoint"}

C27_AdminNeedsSession ==
    [][/\ (response'.endpoint \in AdminEndpoints /\ ~session)
            => /\ response'.status \in {401, 302}
               /\ response'.body = 0
               /\ habits' = habits /\ logs' = logs /\ cache' = cache
               /\ ~session'
       /\ (habits' # habits \/ logs' # logs)
            => session /\ response'.endpoint \in AdminEndpoints
       /\ (~session /\ session')
            => response'.endpoint = "login" /\ response'.status = 302
       /\ response'.endpoint = "logout" => ~session']_vars

C27_Witness ==
    /\ ~session
    /\ response.endpoint = "save_tracking"
    /\ response.status = 401
    /\ DOMAIN habits # {}
    /\ logs # EmptyBag
    /\ DOMAIN cache # {}


(* C28: in a yearly heatmap every qualifying public habit is counted in the *)
(* total_count of every day of the year on or after its created_at date,    *)
(* with or without logs: the effective start is never later than created_at *)
created_by(H, year, date) ==
    {h \in qualifying(H, year) : H[h].created_at <= date}

C28_StartNeverAfterCreation ==
    last.op = "get_yearly_heatmap_data" =>
        \A day \in days_of(last.ret) :
            day.total_count >= Cardinality(created_by(habits, year_of(last), day.date))


(* C29: on every day of every yearly heatmap                                *)
(* 0 <= completed_count <= total_count <= the number of public habits and   *)
(* the completion percentage lies within 0..100 (0..1000 tenths); and       *)
(* get_completion_stats with days > 0 reports completed_days <= total_days. *)
public_habits(H) == {h \in DOMAIN H : H[h].is_public = 1}

C29_CountsWithinBounds ==
    /\ last.op = "get_yearly_heatmap_data" =>
          \A day \in days_of(last.ret) :
              /\ 0 <= day.completed_count
              /\ day.completed_count <= day.total_count
              /\ day.total_count <= Cardinality(public_habits(habits))
              /\ 0 <= day.completion_percentage
              /\ day.completion_percentage <= 1000
    /\ (last.op = "get_completion_stats" /\ last.days > 0) =>
          /\ 0 <= last.ret.completed_days
          /\ last.ret.completed_days <= last.ret.total_days

C29_Witness ==
    /\ last.op = "get_completion_stats"
    /\ last.days = 1
    /\ last.ret.completed_days = 1
    /\ \E r \in BagToSet(logs) :
          r.habit_id = last.habit_id /\ r.date = Today + 1 /\ r.status = 1

C29_WitnessHeatmap ==
    /\ last.op = "get_yearly_heatmap_data"
    /\ \E h \in DOMAIN habits : habits[h].is_public = 0
    /\ \E day \in days_of(last.ret) :
          /\ day.completed_count = 1
          /\ day.total_count = 1
          /\ day.completion_percentage = 1000


(* C30: the dashboard response that follows a failed save request shows     *)
(* every log of today that is stored for an active public habit, with its   *)
(* stored status: the items the request committed before it failed are not  *)
(* hidden by a cached dashboard.                                            *)
C30_FailedSaveKeepsCacheInStep ==
    [][(/\ response.endpoint = "save_tracking"
        /\ response.status = 500
        /\ response'.endpoint = "dashboard_data")
       => \A r \in BagToSet(logs) :
              (r.habit_id \in ActivePublic(habits) /\ r.date = Today) =>
                  \E i \in 1..Len(response'.body.habits) :
                      /\ response'.body.habits[i].id = r.habit_id
                      /\ \E j \in 1..Len(response'.body.habits[i].logs) :
                            /\ response'.body.habits[i].logs[j].date = r.date
                            /\ response'.body.habits[i].logs[j].status = (r.status = 1)]_vars

=============================================================================
